---- MODULE Spec2Model ----
(***************************************************************************)
(* The containers of dsgo: the red-black tree of trees/rbtree.go, the       *)
(* SortedMap, the LFU and LRU caches (with the doubly linked list the LRU   *)
(* cache keeps its keys in), the MinHeap and the PriorityQueue.  Each       *)
(* container has its own variables and its own specification.              *)
(*                                                                         *)
(*                                                                         *)
(* The node graph is a heap of RBNode records addressed by node            *)
(* references (Nil = 0).  Every public operation (Insert, Delete, Search)  *)
(* is one action that runs the Go code of the operation statement by       *)
(* statement on the heap, including reads and writes through references    *)
(* to nodes that were already unlinked.  A nil dereference is a panic; a   *)
(* loop that returns to a state it was in before never exits.              *)
(*                                                                         *)
(* Each statement is an operator from the tree before it to the tree       *)
(* after it, and a sequence of statements is their composition, innermost  *)
(* first.                                                                  *)
(*                                                                         *)
(* The thread-safe tree (threadSafe = true) is the same code called by     *)
(* several goroutines: a call reaches t.mu.Lock() or t.mu.RLock(), passes  *)
(* it, runs its body and releases the lock by the deferred Unlock.         *)
(***************************************************************************)
EXTENDS Integers, Sequences, FiniteSets, TLC

\* ---------------------------------------------------------------- bounds
MaxKey == 5
MaxVal == 2
MaxNodes == 6
\* how many further Insert/Delete calls a run is followed through once the
\* tree has lost the invariants of a red-black tree
MaxDamaged == 1
\* the same for the runs of SpecDeep, over the keys 1..MaxDeepKey
MaxDeepKey == 4
MaxDeepDamaged == 7
\* the goroutines that call the thread-safe tree, the keys they use and how
\* far their runs are followed once the invariants are lost
MaxThreads == 2
MaxConcKey == 4
MaxConcDamaged == 1
\* the keys and values of the sorted map
MaxMapKey == 3
MaxMapVal == 2

Keys == 1..MaxKey

\* the keys and values of the traced calls
MaxTracedKey == 6
MaxTracedVal == 1
TracedKeys == 1..MaxTracedKey
TracedVals == 1..MaxTracedVal

\* every key a tree may hold
MaxAnyKey == IF MaxTracedKey > MaxKey THEN MaxTracedKey ELSE MaxKey
AnyKey == 1..MaxAnyKey
Vals == 1..MaxVal
DeepKeys == 1..MaxDeepKey
ConcKeys == 1..MaxConcKey
Threads == 1..MaxThreads
MapKeys == 1..MaxMapKey
MapVals == 1..MaxMapVal

\* the LFU cache: keys, values, capacities and the largest access count
MaxLfuKey == 3
MaxLfuVal == 1
MaxLfuCap == 2
MaxLfuCount == 4
LfuKeys == 1..MaxLfuKey
LfuVals == 1..MaxLfuVal
LfuCaps == 1..MaxLfuCap

\* the LRU cache: keys, values and capacities
MaxLruKey == 3
MaxLruVal == 2
MaxLruCap == 2
LruKeys == 1..MaxLruKey
LruVals == 1..MaxLruVal
LruCaps == 1..MaxLruCap

\* the heaps: the elements of the MinHeap, the values and priorities of the
\* PriorityQueue, and the most elements held at once
MaxHeapItem == 3
MaxHeapLen == 5
MaxPqVal == 2
MaxPriority == 3
MaxPqLen == 4
HeapItems == 1..MaxHeapItem

\* the goroutines, the sets and the items of the thread-safe Set
MaxSetThreads == 2
MaxSets == 2
MaxSetItem == 2
SetThreads == 1..MaxSetThreads
SetIds == 1..MaxSets
SetItems == 1..MaxSetItem

\* the keys and values of the AVL tree
MaxAvlKey == 7
MaxAvlVal == 1
AvlKeys == 1..MaxAvlKey
AvlVals == 1..MaxAvlVal
PqItems == [Value : 1..MaxPqVal, Priority : 1..MaxPriority]

\* ------------------------------------------------------------ data model
Nil == 0
Red == TRUE
Black == FALSE

RBNode(k, v, c) ==
    [key |-> k, value |-> v, color |-> c, left |-> Nil, right |-> Nil, parent |-> Nil]

\* heap, root: the node graph and t.root
\* live:  the value most recently inserted for each key, 0 once deleted
\* last:  the operation that returned last and what it found
\* fault: "none", or how the last operation failed to return
\* damaged: the Insert/Delete calls made since the invariants were lost
VARIABLES heap, root, live, last, fault, damaged

\* pc:   where each goroutine is in its call: "idle" (no call), "Lock" or
\*       "RLock" (at t.mu.Lock() / t.mu.RLock()), "body" (past it), "Unlock"
\*       or "RUnlock" (the body done, the deferred release to run)
\* call: the call each goroutine is making
\* mu:   t.mu, the goroutine holding it for writing (0: none) and the
\*       goroutines holding it for reading
VARIABLES pc, call, mu
conc == <<pc, call, mu>>

\* sm:     the SortedMap: keys and values (slices), index (the Go map from a
\*         key to its position, -1 where the key has no entry) and fault
\* smLive: the value most recently Set for each key, 0 once deleted
\* smLast: the SortedMap call that returned last and what it returned
VARIABLES sm, smLive, smLast
mapVars == <<sm, smLive, smLast>>

\* the containers other than the red-black tree
VARIABLES lfu, lfuCount, lfuLast
lfuVars == <<lfu, lfuCount, lfuLast>>
VARIABLES lru, lruModel, lruLast
lruVars == <<lru, lruModel, lruLast>>
VARIABLES mh, mhStored, mhLast, pq, pqStored, pqLast
heapVars == <<mh, mhStored, mhLast, pq, pqStored, pqLast>>
VARIABLES avl, avlLast
avlVars == <<avl, avlLast>>
\* the thread-safe sets: the items and the RWMutex of each, and where each
\* goroutine is in its call
VARIABLES setItems, setMu, setPc, setCall
setVars == <<setItems, setMu, setPc, setCall>>

\* what the last traced call on the RBTree did
VARIABLES rbLog
others == <<mapVars, lfuVars, lruVars, heapVars, avlVars, setVars>>
containers == <<others, rbLog>>
tree == <<heap, root, live, last, fault, damaged>>
vars == <<heap, root, live, last, fault, damaged, pc, call, mu, sm, smLive, smLast,
          lfu, lfuCount, lfuLast, lru, lruModel, lruLast,
          mh, mhStored, mhLast, pq, pqStored, pqLast, avl, avlLast, rbLog,
          setItems, setMu, setPc, setCall>>

\* the tree while an operation runs: the heap, t.root and how the run ended
\* log records what a traced run did, one entry for each event
Machine(h, r) ==
    [heap |-> h, root |-> r, fault |-> "none", log |-> <<>>, traced |-> FALSE]
Traced(h, r) == [Machine(h, r) EXCEPT !.traced = TRUE]
Logged(m, ev, arg) ==
    IF m.traced THEN [m EXCEPT !.log = Append(@, [ev |-> ev, arg |-> arg])] ELSE m
Unlogged(m) == [m EXCEPT !.log = <<>>]
Panic(m) == [m EXCEPT !.fault = IF m.fault = "none" THEN "panic" ELSE m.fault]
Diverge(m) == [m EXCEPT !.fault = IF m.fault = "none" THEN "diverge" ELSE m.fault]
Ok(m) == m.fault = "none"

\* ------------------------------------------------------ field assignments
setLeft(m, n, v) == [m EXCEPT !.heap[n].left = v]
setRight(m, n, v) == [m EXCEPT !.heap[n].right = v]
setParent(m, n, v) == [m EXCEPT !.heap[n].parent = v]
setColor(m, n, c) == [m EXCEPT !.heap[n].color = c]

\* if child != nil { child.parent = parent }
linkChild(m, child, parent) == IF child # Nil THEN setParent(m, child, parent) ELSE m

\* if n != nil { n.color = c }
colorIfPresent(m, n, c) == IF n # Nil THEN setColor(m, n, c) ELSE m

\* the slot of u in its parent (or t.root) is set to v; the left slot is tried
\* first
replaceLeftFirst(m, u, v) ==
    IF m.heap[u].parent = Nil THEN [m EXCEPT !.root = v]
    ELSE IF u = m.heap[m.heap[u].parent].left THEN setLeft(m, m.heap[u].parent, v)
    ELSE setRight(m, m.heap[u].parent, v)

\* the same, the right slot tried first
replaceRightFirst(m, u, v) ==
    IF m.heap[u].parent = Nil THEN [m EXCEPT !.root = v]
    ELSE IF u = m.heap[m.heap[u].parent].right THEN setRight(m, m.heap[u].parent, v)
    ELSE setLeft(m, m.heap[u].parent, v)

\* the parent reference left as it was
copyParentSkipped(m, to, from) == m

\* to.parent = from.parent
copyParent(m, to, from) == setParent(m, to, m.heap[from].parent)

\* --------------------------------------------------- the shape of a tree
\* the nodes reachable from n through left and right
RECURSIVE Below(_, _, _)
Below(h, stack, acc) ==
    IF stack = <<>> THEN acc
    ELSE LET n == Head(stack) IN
         IF n = Nil \/ n \in acc THEN Below(h, Tail(stack), acc)
         ELSE Below(h, <<h[n].left, h[n].right>> \o Tail(stack), acc \cup {n})

Subtree(h, n) == Below(h, <<n>>, {})
NodesOf(h, r) == Subtree(h, r)
KeysOf(h, r) == {h[n].key : n \in NodesOf(h, r)}

\* the keys met by an in-order traversal from n (through at most depth levels)
RECURSIVE InOrder(_, _, _)
InOrder(h, n, depth) ==
    IF n = Nil \/ depth = 0 THEN <<>>
    ELSE InOrder(h, h[n].left, depth - 1) \o <<h[n].key>>
           \o InOrder(h, h[n].right, depth - 1)

\* the subtree of n has its keys strictly between lo and hi in search order
\* and every node's parent reference leads to its parent (p for n)
RECURSIVE WellShaped(_, _, _, _, _)
WellShaped(h, n, p, lo, hi) ==
    \/ n = Nil
    \/ /\ h[n].parent = p
       /\ lo < h[n].key /\ h[n].key < hi
       /\ WellShaped(h, h[n].left, n, lo, h[n].key)
       /\ WellShaped(h, h[n].right, n, h[n].key, hi)

WellFormed(m) == WellShaped(m.heap, m.root, Nil, 0, MaxAnyKey + 1)

\* what a rotation leaves as it was: the color, key and value of every
\* node and the in-order key sequence, the links being consistent
Framed(pre, post) ==
    /\ \A n \in 1..Len(pre.heap) :
          /\ post.heap[n].color = pre.heap[n].color
          /\ post.heap[n].key = pre.heap[n].key
          /\ post.heap[n].value = pre.heap[n].value
    /\ InOrder(post.heap, post.root, Len(post.heap))
          = InOrder(pre.heap, pre.root, Len(pre.heap))
    /\ WellFormed(post)

\* the rotation of node recorded: whether node was a node of a well-formed
\* tree and, if so, whether the rotation left the frame as it was
Framing(pre, post, node) ==
    IF ~(WellFormed(pre) /\ node \in NodesOf(pre.heap, pre.root)) THEN "malformed"
    ELSE IF ~Framed(pre, post) THEN "broken"
    ELSE IF node = pre.root /\ post.root # pre.root THEN "framed, new root"
    ELSE "framed"

Rotated(pre, post, node, ev) == Logged(post, ev, Framing(pre, post, node))

\* ------------------------------------------------------------- rotations
rotateLeftSteps(m, node, rightChild) ==
    setParent(
      setLeft(
        replaceLeftFirst(
          copyParent(
            linkChild(setRight(m, node, m.heap[rightChild].left),
                      m.heap[rightChild].left, node),
            rightChild, node),
          node, rightChild),
        rightChild, node),
      node, rightChild)

rotateLeft(m, node) ==
    IF ~Ok(m) THEN m
    ELSE IF m.heap[node].right = Nil THEN Panic(m)
    ELSE Rotated(m, rotateLeftSteps(m, node, m.heap[node].right), node, "rotateLeft")

rotateRightSteps(m, node, leftChild) ==
    setParent(
      setRight(
        replaceRightFirst(
          copyParent(
            linkChild(setLeft(m, node, m.heap[leftChild].right),
                      m.heap[leftChild].right, node),
            leftChild, node),
          node, leftChild),
        leftChild, node),
      node, leftChild)

rotateRight(m, node) ==
    IF ~Ok(m) THEN m
    ELSE IF m.heap[node].left = Nil THEN Panic(m)
    ELSE Rotated(m, rotateRightSteps(m, node, m.heap[node].left), node, "rotateRight")

\* ---------------------------------------------------------------- search
\* the descent of searchNoLock; seen is the set of nodes already visited
RECURSIVE searchLoop(_, _, _, _)
searchLoop(h, node, key, seen) ==
    IF node = Nil THEN [node |-> Nil, found |-> FALSE, fault |-> "none"]
    ELSE IF node \in seen THEN [node |-> Nil, found |-> FALSE, fault |-> "diverge"]
    ELSE IF key < h[node].key THEN searchLoop(h, h[node].left, key, seen \cup {node})
    ELSE IF key > h[node].key THEN searchLoop(h, h[node].right, key, seen \cup {node})
    ELSE [node |-> node, found |-> TRUE, fault |-> "none"]

\* the descent ending on the last node visited where the key is not met
RECURSIVE searchLoopClosest(_, _, _, _)
searchLoopClosest(h, node, key, seen) ==
    IF node \in seen THEN [node |-> Nil, found |-> FALSE, fault |-> "diverge"]
    ELSE IF key < h[node].key /\ h[node].left # Nil
    THEN searchLoopClosest(h, h[node].left, key, seen \cup {node})
    ELSE IF key > h[node].key /\ h[node].right # Nil
    THEN searchLoopClosest(h, h[node].right, key, seen \cup {node})
    ELSE [node |-> node, found |-> TRUE, fault |-> "none"]

searchNoLockClosest(h, r, key) ==
    IF r = Nil THEN [node |-> Nil, found |-> FALSE, fault |-> "none"]
    ELSE searchLoopClosest(h, r, key, {})

searchNoLock(h, r, key) == searchLoop(h, r, key, {})

\* ------------------------------------------------------------ insert-fixup
\* the red-uncle case: recolor
recolor(m, p, uncle, g) ==
    setColor(setColor(setColor(m, p, Black), uncle, Black), g, Red)

\* if node.parent.parent != nil { recolor it Red and rotate it right }
fixInsertLeftGrand(m, g) ==
    IF g = Nil THEN m ELSE rotateRight(setColor(m, g, Red), g)

\* the grandparent recolored and not rotated
fixInsertRightGrandUnrotated(m, g) == IF g = Nil THEN m ELSE setColor(m, g, Red)

fixInsertRightGrand(m, g) ==
    IF g = Nil THEN m ELSE rotateLeft(setColor(m, g, Red), g)

\* the parent left Red before the grandparent is rotated
fixInsertLeftLineRed(m, node) ==
    IF ~Ok(m) \/ m.heap[node].parent = Nil THEN [m |-> m, node |-> node]
    ELSE [m |-> fixInsertLeftGrand(m, m.heap[m.heap[node].parent].parent),
          node |-> node]

\* if node.parent != nil { ... }, parent a left child
fixInsertLeftLine(m, node) ==
    IF ~Ok(m) \/ m.heap[node].parent = Nil THEN [m |-> m, node |-> node]
    ELSE [m |-> fixInsertLeftGrand(setColor(m, m.heap[node].parent, Black),
                                   m.heap[m.heap[node].parent].parent),
          node |-> node]

fixInsertRightLine(m, node) ==
    IF ~Ok(m) \/ m.heap[node].parent = Nil THEN [m |-> m, node |-> node]
    ELSE [m |-> fixInsertRightGrand(setColor(m, m.heap[node].parent, Black),
                                    m.heap[m.heap[node].parent].parent),
          node |-> node]

\* p = node.parent is the left child of g
fixInsertLeft(m, node, p, g) ==
    IF m.heap[g].right # Nil /\ m.heap[m.heap[g].right].color = Red
    THEN [m |-> Logged(recolor(m, p, m.heap[g].right, g), "recolor", "uncle"), node |-> g]
    ELSE IF node = m.heap[p].right
    THEN fixInsertLeftLine(rotateLeft(m, p), p)
    ELSE fixInsertLeftLine(m, node)

\* p = node.parent is not the left child of g
fixInsertRight(m, node, p, g) ==
    IF m.heap[g].left # Nil /\ m.heap[m.heap[g].left].color = Red
    THEN [m |-> Logged(recolor(m, p, m.heap[g].left, g), "recolor", "uncle"), node |-> g]
    ELSE IF node = m.heap[p].left
    THEN fixInsertRightLine(rotateRight(m, p), p)
    ELSE fixInsertRightLine(m, node)

\* one iteration of the loop of fixInsert
fixInsertBody(m, node, p) ==
    IF m.heap[p].parent = Nil THEN [m |-> Panic(m), node |-> node]
    ELSE IF p = m.heap[m.heap[p].parent].left
    THEN fixInsertLeft(m, node, p, m.heap[p].parent)
    ELSE fixInsertRight(m, node, p, m.heap[p].parent)

fixInsertCond(m, node) ==
    /\ node # m.root
    /\ m.heap[node].parent # Nil
    /\ m.heap[m.heap[node].parent].color = Red

RECURSIVE fixInsertLoop(_, _, _)
fixInsertNext(s, seen) == fixInsertLoop(s.m, s.node, seen)

fixInsertLoop(m, node, seen) ==
    IF ~Ok(m) THEN m
    ELSE IF ~fixInsertCond(m, node) THEN m
    ELSE IF <<Unlogged(m), node>> \in seen THEN Diverge(m)
    ELSE fixInsertNext(fixInsertBody(Logged(m, "iteration", "fixInsert"), node,
                                     m.heap[node].parent),
                       seen \cup {<<Unlogged(m), node>>})

\* the closing recoloring of the root left out
blackenRootSkipped(m) == m

\* t.root.color = Black
blackenRoot(m) ==
    IF ~Ok(m) THEN m
    ELSE IF m.root = Nil THEN Panic(m)
    ELSE setColor(m, m.root, Black)

fixInsert(m, node) == blackenRoot(fixInsertLoop(m, node, {}))

\* ---------------------------------------------------------------- Insert
\* the descent of Insert: the node where the key is, or the last node visited
RECURSIVE insertDescent(_, _, _, _, _)
insertDescent(h, current, parent, key, seen) ==
    IF current = Nil THEN [at |-> Nil, parent |-> parent, fault |-> "none"]
    ELSE IF current \in seen THEN [at |-> Nil, parent |-> parent, fault |-> "diverge"]
    ELSE IF key < h[current].key
         THEN insertDescent(h, h[current].left, current, key, seen \cup {current})
    ELSE IF key > h[current].key
         THEN insertDescent(h, h[current].right, current, key, seen \cup {current})
    ELSE [at |-> current, parent |-> current, fault |-> "none"]

\* the overwrite left out: the node keeps the value it had
setValueSkipped(h, current, value) == h

\* current.value = value
setValue(h, current, value) == [h EXCEPT ![current].value = value]

\* the two sides taken for one another
attachSwapped(m, node, parent, key) ==
    IF key < m.heap[parent].key
    THEN setRight(setParent(m, node, parent), parent, node)
    ELSE setLeft(setParent(m, node, parent), parent, node)

\* node.parent = parent, and node becomes the left or right child of parent
attach(m, node, parent, key) ==
    IF key < m.heap[parent].key
    THEN setLeft(setParent(m, node, parent), parent, node)
    ELSE setRight(setParent(m, node, parent), parent, node)

\* the return after the overwrite left out: the new node is attached as well
insertAtNoReturn(m, node, d, key, value) ==
    IF d.fault # "none" THEN Diverge(m)
    ELSE IF d.at # Nil
    THEN fixInsert(attach([m EXCEPT !.heap = setValue(m.heap, d.at, value)],
                          node, d.parent, key), node)
    ELSE fixInsert(attach(m, node, d.parent, key), node)

\* Insert after the descent d, the new node allocated at node
insertAt(m, node, d, key, value) ==
    IF d.fault # "none" THEN Diverge(m)
    ELSE IF d.at # Nil THEN [m EXCEPT !.heap = setValue(m.heap, d.at, value)]
    ELSE fixInsert(attach(m, node, d.parent, key), node)

InsertRun(h, r, key, value) ==
    IF r = Nil
    THEN setColor(Machine(Append(h, RBNode(key, value, Red)), Len(h) + 1),
                  Len(h) + 1, Black)
    ELSE insertAt(Machine(Append(h, RBNode(key, value, Red)), r), Len(h) + 1,
                  insertDescent(h, r, Nil, key, {}), key, value)

\* the same run, traced
InsertRunTraced(h, r, key, value) ==
    IF r = Nil
    THEN setColor(Traced(Append(h, RBNode(key, value, Red)), Len(h) + 1),
                  Len(h) + 1, Black)
    ELSE insertAt(Traced(Append(h, RBNode(key, value, Red)), r), Len(h) + 1,
                  insertDescent(h, r, Nil, key, {}), key, value)

\* ---------------------------------------------------------------- Delete
RECURSIVE minimumLoop(_, _, _)
minimumLoop(h, node, seen) ==
    IF h[node].left = Nil THEN [node |-> node, fault |-> "none"]
    ELSE IF node \in seen THEN [node |-> node, fault |-> "diverge"]
    ELSE minimumLoop(h, h[node].left, seen \cup {node})

minimum(h, node) == minimumLoop(h, node, {})

\* if v != nil { v.parent = u.parent }
passParent(m, u, v) == IF v # Nil THEN setParent(m, v, m.heap[u].parent) ELSE m

transplant(m, u, v) ==
    IF ~Ok(m) THEN m ELSE passParent(replaceLeftFirst(m, u, v), u, v)

\* ------------------------------------------------------------ delete-fixup
Break(m, node, parent) == [m |-> m, node |-> node, parent |-> parent, brk |-> TRUE]
Continue(m, node, parent) == [m |-> m, node |-> node, parent |-> parent, brk |-> FALSE]

\* one of the defensive breaks of the loop
Exit(m, node, parent, found) ==
    Break(IF Ok(m) THEN Logged(m, "exit", found) ELSE m, node, parent)

\* the sibling of the current position, and the parent the iteration works on
fixDeleteSibling(m, node, parent) ==
    IF parent = Nil THEN [brk |-> TRUE, sibling |-> Nil, parent |-> parent]
    ELSE IF node = Nil
    THEN [brk |-> FALSE,
          sibling |-> IF m.heap[parent].left = Nil \/ m.heap[parent].left = node
                      THEN m.heap[parent].right ELSE m.heap[parent].left,
          parent |-> parent]
    ELSE IF m.heap[node].parent = Nil
    THEN [brk |-> TRUE, sibling |-> Nil, parent |-> parent]
    ELSE [brk |-> FALSE,
          sibling |-> IF node = m.heap[m.heap[node].parent].left
                      THEN m.heap[m.heap[node].parent].right
                      ELSE m.heap[m.heap[node].parent].left,
          parent |-> m.heap[node].parent]

IsBlackOrNil(h, n) == n = Nil \/ h[n].color = Black

\* sibling = parent.right / sibling = parent.left, read after a rotation
rightSibling(m, parent) == [m |-> m, sibling |-> m.heap[parent].right]
leftSibling(m, parent) == [m |-> m, sibling |-> m.heap[parent].left]

\* sibling Red: recolor, rotate the parent, recompute the sibling
fixDeleteRedSibling(m, parent, sibling) ==
    IF m.heap[sibling].color # Red THEN [m |-> m, sibling |-> sibling]
    ELSE IF sibling = m.heap[parent].right
    THEN rightSibling(rotateLeft(setColor(setColor(m, sibling, Black), parent, Red),
                                 parent), parent)
    ELSE leftSibling(rotateRight(setColor(setColor(m, sibling, Black), parent, Red),
                                 parent), parent)

\* the current position left where it was after the far-child rotation
toRootSkipped(m, parent) == Continue(m, parent, m.heap[parent].parent)

\* node = t.root
toRoot(m, parent) == Continue(m, m.root, parent)

\* the far child is Red (or was made so): recolor, rotate the parent, finish
fixDeleteRightFar(m, node, parent, sibling) ==
    IF ~Ok(m) \/ sibling = Nil THEN Exit(m, node, parent, "nil sibling, near child")
    ELSE toRoot(
           rotateLeft(
             colorIfPresent(
               setColor(setColor(Logged(m, "far", "right"), sibling,
                                 m.heap[parent].color), parent, Black),
               m.heap[sibling].right, Black),
             parent),
           parent)

fixDeleteLeftFar(m, node, parent, sibling) ==
    IF ~Ok(m) \/ sibling = Nil THEN Exit(m, node, parent, "nil sibling, near child")
    ELSE toRoot(
           rotateRight(
             colorIfPresent(
               setColor(setColor(Logged(m, "far", "left"), sibling,
                                 m.heap[parent].color), parent, Black),
               m.heap[sibling].left, Black),
             parent),
           parent)

\* sibling = parent.right, read after the rotation of the near child
fixDeleteRightNear(m, node, parent) ==
    IF ~Ok(m) THEN Break(m, node, parent)
    ELSE fixDeleteRightFar(m, node, parent, m.heap[parent].right)

fixDeleteLeftNear(m, node, parent) ==
    IF ~Ok(m) THEN Break(m, node, parent)
    ELSE fixDeleteLeftFar(m, node, parent, m.heap[parent].left)

\* sibling is parent.right and has a Red child
fixDeleteRightSibling(m, node, parent, sibling) ==
    IF IsBlackOrNil(m.heap, m.heap[sibling].right)
    THEN fixDeleteRightNear(
           rotateRight(setColor(colorIfPresent(m, m.heap[sibling].left, Black),
                                sibling, Red),
                       sibling),
           node, parent)
    ELSE fixDeleteRightFar(m, node, parent, sibling)

\* sibling is not parent.right and has a Red child
fixDeleteLeftSibling(m, node, parent, sibling) ==
    IF IsBlackOrNil(m.heap, m.heap[sibling].left)
    THEN fixDeleteLeftNear(
           rotateLeft(setColor(colorIfPresent(m, m.heap[sibling].right, Black),
                               sibling, Red),
                      sibling),
           node, parent)
    ELSE fixDeleteLeftFar(m, node, parent, sibling)

\* the cases on the sibling a.sibling, after the red-sibling step
fixDeleteCases(a, node, parent) ==
    IF ~Ok(a.m) \/ a.sibling = Nil THEN Exit(a.m, node, parent, "nil sibling, red sibling")
    ELSE IF /\ IsBlackOrNil(a.m.heap, a.m.heap[a.sibling].left)
            /\ IsBlackOrNil(a.m.heap, a.m.heap[a.sibling].right)
    THEN Continue(setColor(a.m, a.sibling, Red), parent, a.m.heap[parent].parent)
    ELSE IF a.sibling = a.m.heap[parent].right
    THEN fixDeleteRightSibling(a.m, node, parent, a.sibling)
    ELSE fixDeleteLeftSibling(a.m, node, parent, a.sibling)

\* one iteration of the loop of fixDelete, s the sibling found
fixDeleteBody(m, node, s) ==
    IF s.brk THEN Exit(m, node, s.parent, "nil parent")
    ELSE IF s.sibling = Nil THEN Exit(m, node, s.parent, "nil sibling")
    ELSE fixDeleteCases(fixDeleteRedSibling(m, s.parent, s.sibling), node, s.parent)

fixDeleteCond(m, node) ==
    /\ node # m.root
    /\ (node = Nil \/ m.heap[node].color = Black)

RECURSIVE fixDeleteLoop(_, _, _, _)
fixDeleteNext(s, seen) ==
    IF s.brk THEN [m |-> s.m, node |-> s.node]
    ELSE fixDeleteLoop(s.m, s.node, s.parent, seen)

fixDeleteLoop(m, node, parent, seen) ==
    IF ~Ok(m) THEN [m |-> m, node |-> node]
    ELSE IF ~fixDeleteCond(m, node) THEN [m |-> m, node |-> node]
    ELSE IF <<Unlogged(m), node, parent>> \in seen
    THEN [m |-> Diverge(m), node |-> node]
    ELSE fixDeleteNext(fixDeleteBody(Logged(m, "iteration", "fixDelete"), node,
                                     fixDeleteSibling(m, node, parent)),
                       seen \cup {<<Unlogged(m), node, parent>>})

\* if node != nil { node.color = Black }
blackenNode(e) == IF ~Ok(e.m) THEN e.m ELSE colorIfPresent(e.m, e.node, Black)

fixDelete(m, node, parent) == blackenNode(fixDeleteLoop(m, node, parent, {}))

\* ------------------------------------------------------------- deleteNode
\* what deleteNode hands to the fixup: the tree after the unlinking, the
\* color of the node spliced out, the replacement and its recorded parent
Spliced(m, color, child, childParent) ==
    [m |-> m, color |-> color, child |-> child, childParent |-> childParent]

\* successor.right = node.right; successor.right.parent = successor
takeRight(m, node, successor) ==
    IF ~Ok(m) THEN m
    ELSE IF m.heap[node].right = Nil THEN Panic(setRight(m, successor, Nil))
    ELSE setParent(setRight(m, successor, m.heap[node].right),
                   m.heap[node].right, successor)

\* successor.left = node.left; successor.left.parent = successor
takeLeft(m, node, successor) ==
    IF ~Ok(m) THEN m
    ELSE IF m.heap[node].left = Nil THEN Panic(setLeft(m, successor, Nil))
    ELSE setParent(setLeft(m, successor, m.heap[node].left),
                   m.heap[node].left, successor)

\* the color of the node not passed on
takeColorSkipped(m, node, successor) == m

\* successor.color = node.color
takeColor(m, node, successor) ==
    IF ~Ok(m) THEN m ELSE setColor(m, successor, m.heap[node].color)

\* the successor is taken out of its place, unless it is node's right child
detachSuccessor(m, node, successor) ==
    IF m.heap[successor].parent = node
    THEN linkChild(m, m.heap[successor].right, successor)
    ELSE takeRight(transplant(m, successor, m.heap[successor].right), node, successor)

\* the successor takes the place of node
placeSuccessor(m, node, successor) ==
    takeColor(takeLeft(transplant(m, node, successor), node, successor),
              node, successor)

\* where the successor of node was found
SuccessorAt(m, node, successor) ==
    IF m.heap[successor].parent # node THEN "deeper"
    ELSE IF m.heap[successor].right = Nil THEN "right child, no right child"
    ELSE "right child"

\* which node object the two-children branch left in the tree: "moved" when
\* node is unlinked and successor, with its own key and value, has the
\* place, the left child and the color of node; "copied" when node stays,
\* with the key and value of successor, and successor is unlinked
Splicing(pre, post, node, successor) ==
    IF ~Ok(post) THEN "fault"
    ELSE IF /\ node \notin NodesOf(post.heap, post.root)
            /\ successor \in NodesOf(post.heap, post.root)
            /\ post.heap[successor].key = pre.heap[successor].key
            /\ post.heap[successor].value = pre.heap[successor].value
            /\ post.heap[successor].parent = pre.heap[node].parent
            /\ post.heap[successor].left = pre.heap[node].left
            /\ post.heap[successor].color = pre.heap[node].color
            /\ (pre.root = node => post.root = successor)
    THEN "moved"
    ELSE IF /\ node \in NodesOf(post.heap, post.root)
            /\ successor \notin NodesOf(post.heap, post.root)
            /\ post.heap[node].key = pre.heap[successor].key
            /\ post.heap[node].value = pre.heap[successor].value
    THEN "copied"
    ELSE "other"

spliced(pre, post, node, successor) ==
    Logged(Logged(post, "successor", SuccessorAt(pre, node, successor)),
           "splice", Splicing(pre, post, node, successor))

\* the two-children branch of deleteNode, mn the result of minimum(node.right)
deleteTwoChildren(m, node, mn) ==
    IF mn.fault # "none" THEN Spliced(Diverge(m), Black, Nil, Nil)
    ELSE Spliced(spliced(m, placeSuccessor(detachSuccessor(m, node, mn.node),
                                           node, mn.node),
                         node, mn.node),
                 m.heap[mn.node].color,
                 m.heap[mn.node].right,
                 m.heap[mn.node].parent)

\* parent is, in the tree m, the parent of the position of child: a node of
\* the tree with child as its left or right child (the root has none)
ActualParent(m, child, parent) ==
    IF parent = Nil THEN child = m.root
    ELSE /\ parent \in NodesOf(m.heap, m.root)
         /\ child \in {m.heap[parent].left, m.heap[parent].right}
         /\ child # Nil => m.heap[child].parent = parent

Pairing(d) ==
    IF ActualParent(d.m, d.child, d.childParent) THEN "actual parent"
    ELSE IF d.childParent \notin NodesOf(d.m.heap, d.m.root) THEN "unlinked node"
    ELSE "other node"

\* if originalColor == Black { t.fixDelete(child, childParent) }
fixIfBlack(d) ==
    IF ~Ok(d.m) THEN d.m
    ELSE IF d.color = Black
    THEN fixDelete(Logged(d.m, "fixDelete", Pairing(d)), d.child, d.childParent)
    ELSE d.m

deleteNode(m, node) ==
    IF m.heap[node].left = Nil
    THEN fixIfBlack(Spliced(transplant(m, node, m.heap[node].right),
                            m.heap[node].color, m.heap[node].right,
                            m.heap[node].parent))
    ELSE IF m.heap[node].right = Nil
    THEN fixIfBlack(Spliced(transplant(m, node, m.heap[node].left),
                            m.heap[node].color, m.heap[node].left,
                            m.heap[node].parent))
    ELSE fixIfBlack(deleteTwoChildren(m, node, minimum(m.heap, m.heap[node].right)))

\* Delete after the search s
deleteFound(m, s) ==
    IF s.fault # "none" THEN Diverge(m)
    ELSE IF ~s.found THEN m
    ELSE deleteNode(m, s.node)

\* the search ending on the last node visited where the key is not met
closest(d) ==
    [node |-> IF d.at # Nil THEN d.at ELSE d.parent,
     found |-> d.at # Nil \/ d.parent # Nil,
     fault |-> d.fault]

\* Delete with that search
DeleteRunClosest(h, r, key) ==
    deleteFound(Machine(h, r), closest(insertDescent(h, r, Nil, key, {})))

DeleteRun(h, r, key) == deleteFound(Machine(h, r), searchNoLock(h, r, key))

\* the same run, traced
DeleteRunTraced(h, r, key) == deleteFound(Traced(h, r), searchNoLock(h, r, key))

\* ------------------------------------------- node references, reclamation
\* The nodes that can still be reached from t.root through left, right and
\* parent, in the order a depth-first walk meets them.  Nodes that cannot be
\* reached are reclaimed and the others are renamed by their place in the
\* walk: a reference has no meaning but the node it leads to.
RECURSIVE Walk(_, _, _)
Walk(h, stack, order) ==
    IF stack = <<>> THEN order
    ELSE IF Head(stack) = Nil \/ (\E i \in 1..Len(order) : order[i] = Head(stack))
    THEN Walk(h, Tail(stack), order)
    ELSE Walk(h, <<h[Head(stack)].left, h[Head(stack)].right, h[Head(stack)].parent>>
                   \o Tail(stack),
              Append(order, Head(stack)))

Ref(order, n) == IF n = Nil THEN Nil ELSE CHOOSE i \in 1..Len(order) : order[i] = n

Renamed(m, order) ==
    [heap |-> [i \in 1..Len(order) |->
                 [m.heap[order[i]] EXCEPT !.left = Ref(order, @),
                                          !.right = Ref(order, @),
                                          !.parent = Ref(order, @)]],
     root |-> Ref(order, m.root),
     fault |-> m.fault]

\* a call that does not return leaves nothing to observe: the tree is kept
\* as it was when the call began
Reclaim(m, h, r) ==
    IF Ok(m) THEN Renamed(m, Walk(m.heap, <<m.root>>, <<>>))
    ELSE [heap |-> h, root |-> r, fault |-> m.fault]

\* ------------------------------------------------------ observations
\* the numbers of Black nodes on the paths from n to a nil leaf (paths are
\* followed through at most depth nodes)
RECURSIVE BlackCounts(_, _, _)
BlackCounts(h, n, depth) ==
    IF n = Nil THEN {0}
    ELSE IF depth = 0 THEN {}
    ELSE LET b == IF h[n].color = Black THEN 1 ELSE 0 IN
         {c + b : c \in BlackCounts(h, h[n].left, depth - 1)
                          \cup BlackCounts(h, h[n].right, depth - 1)}

RootBlackIn(h, r) == r # Nil => h[r].color = Black

NoRedRedIn(h, r) ==
    \A n \in NodesOf(h, r) : h[n].color = Red =>
        /\ IsBlackOrNil(h, h[n].left)
        /\ IsBlackOrNil(h, h[n].right)

BlackHeightIn(h, r) == Cardinality(BlackCounts(h, r, Len(h))) <= 1

OrderedIn(h, r) ==
    /\ \A n \in NodesOf(h, r) :
          /\ \A x \in Subtree(h, h[n].left) : h[x].key < h[n].key
          /\ \A x \in Subtree(h, h[n].right) : h[x].key > h[n].key
    /\ \A x, y \in NodesOf(h, r) : x # y => h[x].key # h[y].key

LinkedIn(h, r) ==
    /\ r # Nil => h[r].parent = Nil
    /\ \A n \in NodesOf(h, r) :
          /\ h[n].left # Nil => h[h[n].left].parent = n
          /\ h[n].right # Nil => h[h[n].right].parent = n
          /\ n \notin Subtree(h, h[n].left) \cup Subtree(h, h[n].right)

\* the keys of S in ascending order
RECURSIVE Ascending(_)
Ascending(S) ==
    IF S = {} THEN <<>>
    ELSE <<CHOOSE x \in S : \A y \in S : x <= y>>
           \o Ascending(S \ {CHOOSE x \in S : \A y \in S : x <= y})

\* the tree after the keys of the sequence are inserted into h, r in turn
RECURSIVE InsertAll(_, _, _)
InsertAll(h, r, keys) ==
    IF keys = <<>> THEN Machine(h, r)
    ELSE InsertAll(InsertRun(h, r, Head(keys), 1).heap,
                   InsertRun(h, r, Head(keys), 1).root, Tail(keys))

\* the number of nodes on the longest path from n to a nil leaf (paths are
\* followed through at most depth nodes)
Longer(a, b) == IF a >= b THEN a ELSE b

RECURSIVE LongestPath(_, _, _)
LongestPath(h, n, depth) ==
    IF n = Nil \/ depth = 0 THEN 0
    ELSE 1 + Longer(LongestPath(h, h[n].left, depth - 1),
                    LongestPath(h, h[n].right, depth - 1))

RECURSIVE Pow2(_)
Pow2(e) == IF e = 0 THEN 1 ELSE 2 * Pow2(e - 1)

\* p <= 2 * log2(n + 1)
WithinLog(p, n) == Pow2(p) <= (n + 1) * (n + 1)

LiveKeys(l) == {k \in AnyKey : l[k] # 0}

RefinesIn(h, r, l) ==
    /\ KeysOf(h, r) = LiveKeys(l)
    /\ Cardinality(NodesOf(h, r)) = Cardinality(LiveKeys(l))

\* The invariants of section 3 of the design, in one descent: the number of
\* Black nodes on every path from n to a nil leaf when the subtree of n has
\* its keys strictly between lo and hi in search order, every node's parent
\* reference leads to its parent, no Red node has a Red child and all paths
\* count the same; -1 otherwise.
RECURSIVE Sound(_, _, _, _, _)
Sound(h, n, p, lo, hi) ==
    IF n = Nil THEN 0
    ELSE IF h[n].parent # p \/ ~(lo < h[n].key /\ h[n].key < hi) THEN -1
    ELSE LET l == Sound(h, h[n].left, n, lo, h[n].key)
             r == Sound(h, h[n].right, n, h[n].key, hi)
         IN IF l < 0 \/ r # l THEN -1
            ELSE IF /\ h[n].color = Red
                    /\ ~(IsBlackOrNil(h, h[n].left) /\ IsBlackOrNil(h, h[n].right))
            THEN -1
            ELSE IF h[n].color = Black THEN l + 1 ELSE l

\* h holds the nodes reachable from r and nothing else
Intact(h, r, l) ==
    /\ RootBlackIn(h, r)
    /\ Sound(h, r, Nil, 0, MaxAnyKey + 1) >= 0
    /\ {h[i].key : i \in 1..Len(h)} = LiveKeys(l)

\* ------------------------------------------------------------- SortedMap
\* Positions are those of the Go slices: the element at position p of a
\* slice is element p + 1 of the sequence.
Absent == 0 - 1

NewSortedMap ==
    [keys |-> <<>>, values |-> <<>>, index |-> [k \in MapKeys |-> Absent],
     fault |-> "none"]

\* sort.Search(n, f), f(i) being keys[i] >= key: a binary search
RECURSIVE sortSearch(_, _, _, _)
sortSearch(keys, key, i, j) ==
    IF i >= j THEN i
    ELSE IF ~(keys[((i + j) \div 2) + 1] >= key)
    THEN sortSearch(keys, key, ((i + j) \div 2) + 1, j)
    ELSE sortSearch(keys, key, i, (i + j) \div 2)

\* slices.Insert(s, pos, v) and slices.Delete(s, pos, pos+1)
slicesInsert(s, pos, v) == SubSeq(s, 1, pos) \o <<v>> \o SubSeq(s, pos + 1, Len(s))
slicesDelete(s, pos) == SubSeq(s, 1, pos) \o SubSeq(s, pos + 2, Len(s))

\* an index into a slice beyond its length: the call panics
OutOfRange(m) == [m EXCEPT !.fault = "panic"]

\* SortedMap.Get: the value and whether the key has an entry
smGet(m, key) ==
    IF m.index[key] = Absent THEN [value |-> 0, found |-> FALSE, fault |-> "none"]
    ELSE IF m.index[key] >= Len(m.values)
    THEN [value |-> 0, found |-> FALSE, fault |-> "panic"]
    ELSE [value |-> m.values[m.index[key] + 1], found |-> TRUE, fault |-> "none"]

\* the entry of the new key alone is written: m.index[key] = pos
indexNewKey(m, key, pos) == [m EXCEPT !.index[key] = pos]

\* the new key and its value go in at pos
smInsertAt(m, key, value, pos) ==
    indexNewKey([m EXCEPT !.keys = slicesInsert(m.keys, pos, key),
                          !.values = slicesInsert(m.values, pos, value)],
                key, pos)

smSet(m, key, value) ==
    IF m.index[key] # Absent
    THEN IF m.index[key] >= Len(m.values) THEN OutOfRange(m)
         ELSE [m EXCEPT !.values[m.index[key] + 1] = value]
    ELSE smInsertAt(m, key, value, sortSearch(m.keys, key, 0, Len(m.keys)))

\* for i := pos; i < len(m.keys); i++ { m.index[m.keys[i]] = i }
RECURSIVE reindexFrom(_, _)
reindexFrom(m, i) ==
    IF i >= Len(m.keys) THEN m
    ELSE reindexFrom([m EXCEPT !.index[m.keys[i + 1]] = i], i + 1)

smDelete(m, key) ==
    IF m.index[key] = Absent THEN m
    ELSE IF m.index[key] + 1 > Len(m.keys) THEN OutOfRange(m)
    ELSE reindexFrom([m EXCEPT !.keys = slicesDelete(m.keys, m.index[key]),
                               !.values = slicesDelete(m.values, m.index[key]),
                               !.index[key] = Absent],
                     m.index[key])

smLen(m) == Len(m.keys)

\* -------------------------------------------------------------- LFUCache
\* The frequency nodes are the elements of c.nodes, a reference is a
\* position in it and Nil is no node.  c.cache[k] = Nil and c.values[k] = 0
\* say that the map has no entry for k.
NewLFUCache(capacity) ==
    [capacity |-> capacity,
     cache |-> [k \in LfuKeys |-> Nil],
     freqList |-> Nil,
     values |-> [k \in LfuKeys |-> 0],
     nodes |-> <<>>,
     fault |-> "none"]

frequencyNode(freq, prev, next) ==
    [freq |-> freq, items |-> {}, prev |-> prev, next |-> next]

\* len(c.values)
lfuLen(c) == Cardinality({k \in LfuKeys : c.values[k] # 0})

\* delete(node.items, key)
dropItem(c, n, key) == [c EXCEPT !.nodes[n].items = @ \ {key}]

\* node.prev.next = node.next, where node.prev is a node
unlinkPrev(c, n) ==
    IF c.nodes[n].prev # Nil
    THEN [c EXCEPT !.nodes[c.nodes[n].prev].next = c.nodes[n].next]
    ELSE c

\* node.next.prev = node.prev, where node.next is a node
unlinkNext(c, n) ==
    IF c.nodes[n].next # Nil
    THEN [c EXCEPT !.nodes[c.nodes[n].next].prev = c.nodes[n].prev]
    ELSE c

\* an empty node that is not the head leaves the list
unlinkIfEmpty(c, n) ==
    IF c.nodes[n].items = {} /\ n # c.freqList
    THEN unlinkNext(unlinkPrev(c, n), n)
    ELSE c

\* node.next.prev = nextNode, where node.next is a node; node.next = nextNode
linkAfter(c, n, new) ==
    [(IF c.nodes[n].next # Nil
      THEN [c EXCEPT !.nodes[c.nodes[n].next].prev = new]
      ELSE c) EXCEPT !.nodes[n].next = new]

\* the node of the next frequency: node.next if it has that frequency, a new
\* node after node otherwise.  Either way it is node.next afterwards.
ensureNext(c, n) ==
    IF c.nodes[n].next # Nil /\ c.nodes[c.nodes[n].next].freq = c.nodes[n].freq + 1
    THEN c
    ELSE linkAfter([c EXCEPT !.nodes =
                        Append(@, frequencyNode(c.nodes[n].freq + 1, n, c.nodes[n].next))],
                   n, Len(c.nodes) + 1)

\* nextNode.items[key] = struct{}{}; c.cache[key] = nextNode
addItem(c, n, key) ==
    [c EXCEPT !.nodes[n].items = @ \cup {key}, !.cache[key] = n]

addToNext(c, n, key) == addItem(c, c.nodes[n].next, key)

updateFrequency(c, key, n) ==
    addToNext(ensureNext(unlinkIfEmpty(dropItem(c, n, key), n), n), n, key)

\* LFUCache.Get
lfuGet(c, key) ==
    IF c.cache[key] # Nil THEN updateFrequency(c, key, c.cache[key]) ELSE c

\* the first node from cur on that holds a key, Nil where there is none and
\* Absent where the walk along next comes back to a node it has left
RECURSIVE firstNonEmpty(_, _, _)
firstNonEmpty(c, cur, seen) ==
    IF cur = Nil THEN Nil
    ELSE IF cur \in seen THEN Absent
    ELSE IF c.nodes[cur].items # {} THEN cur
    ELSE firstNonEmpty(c, c.nodes[cur].next, seen \cup {cur})

\* a Put of key that has to make room
lfuFull(c, key) == c.cache[key] = Nil /\ lfuLen(c) >= c.capacity

\* the keys that "for k := range current.items" may yield first; 0 where
\* nothing is removed
lfuVictims(c, key) ==
    IF lfuFull(c, key) /\ firstNonEmpty(c, c.freqList, {}) \notin {Nil, Absent}
    THEN c.nodes[firstNonEmpty(c, c.freqList, {})].items
    ELSE {0}

\* delete(current.items, keyToRemove); delete(c.cache, ...); delete(c.values, ...)
lfuEvict(c, key, victim) ==
    IF ~lfuFull(c, key) THEN c
    ELSE IF firstNonEmpty(c, c.freqList, {}) = Absent THEN [c EXCEPT !.fault = "diverge"]
    ELSE IF victim = 0 THEN c
    ELSE [c EXCEPT !.nodes[firstNonEmpty(c, c.freqList, {})].items = @ \ {victim},
                   !.cache[victim] = Nil,
                   !.values[victim] = 0]

\* a head of frequency 1
ensureHead(c) ==
    IF c.freqList = Nil \/ c.nodes[c.freqList].freq # 1
    THEN [(IF c.freqList # Nil
           THEN [c EXCEPT !.nodes[c.freqList].prev = Len(c.nodes) + 1]
           ELSE c)
          EXCEPT !.nodes = Append(@, frequencyNode(1, Nil, c.freqList)),
                 !.freqList = Len(c.nodes) + 1]
    ELSE c

addToHead(c, key) == addItem(c, c.freqList, key)

setCacheValue(c, key, value) ==
    IF c.fault # "none" THEN c ELSE [c EXCEPT !.values[key] = value]

\* LFUCache.Put, victim being the key the range loop yields
lfuPut(c, key, value, victim) ==
    IF c.cache[key] # Nil
    THEN setCacheValue(updateFrequency(c, key, c.cache[key]), key, value)
    ELSE setCacheValue(addToHead(ensureHead(lfuEvict(c, key, victim)), key), key, value)

dropEntry(c, key) == [c EXCEPT !.cache[key] = Nil, !.values[key] = 0]

\* LFUCache.Remove
lfuRemove(c, key) ==
    IF c.cache[key] # Nil
    THEN dropEntry(unlinkIfEmpty(dropItem(c, c.cache[key], key), c.cache[key]), key)
    ELSE c

\* The frequency nodes that can still be reached, from c.freqList and from
\* the entries of c.cache, through next and prev, in the order a walk meets
\* them; the others are reclaimed and the rest renamed by that order.
RECURSIVE WalkList(_, _, _)
WalkList(h, stack, order) ==
    IF stack = <<>> THEN order
    ELSE IF Head(stack) = Nil \/ (\E i \in 1..Len(order) : order[i] = Head(stack))
    THEN WalkList(h, Tail(stack), order)
    ELSE WalkList(h, <<h[Head(stack)].next, h[Head(stack)].prev>> \o Tail(stack),
                  Append(order, Head(stack)))

lfuRenamed(c, order) ==
    [c EXCEPT !.nodes = [i \in 1..Len(order) |->
                           [c.nodes[order[i]] EXCEPT !.next = Ref(order, @),
                                                     !.prev = Ref(order, @)]],
              !.freqList = Ref(order, @),
              !.cache = [k \in LfuKeys |-> Ref(order, c.cache[k])]]

lfuReclaim(c) ==
    lfuRenamed(c, WalkList(c.nodes, <<c.freqList>> \o [k \in LfuKeys |-> c.cache[k]], <<>>))

NoCacheOp == [op |-> "New", key |-> 0, found |-> FALSE, evicted |-> 0]

\* ------------------------------------------------------ DoubleLinkedList
\* The nodes are the elements of l.nodes; a reference is a position in it.
NewDoubleLinkedList ==
    [head |-> Nil, tail |-> Nil, len |-> 0, nodes |-> <<>>, fault |-> "none"]

DNode(value) == [value |-> value, prev |-> Nil, next |-> Nil]

\* a field of no node is read or written
NilDereference(l) == [l EXCEPT !.fault = "panic"]

linkFront(l, new) ==
    IF l.head = Nil THEN [l EXCEPT !.head = new, !.tail = new, !.len = @ + 1]
    ELSE [l EXCEPT !.nodes[new].next = l.head,
                   !.nodes[l.head].prev = new,
                   !.head = new,
                   !.len = @ + 1]

PushFront(l, value) ==
    linkFront([l EXCEPT !.nodes = Append(@, DNode(value))], Len(l.nodes) + 1)

\* "Special case: removing head"
removeHead(l) ==
    IF l.nodes[l.head].next = Nil
    THEN [l EXCEPT !.head = Nil, !.tail = Nil, !.len = @ - 1]
    ELSE [l EXCEPT !.head = l.nodes[l.head].next,
                   !.nodes[l.nodes[l.head].next].prev = Nil,
                   !.len = @ - 1]

\* "Special case: removing tail"
removeTail(l) ==
    IF l.nodes[l.tail].prev = Nil THEN NilDereference(l)
    ELSE [l EXCEPT !.tail = l.nodes[l.tail].prev,
                   !.nodes[l.nodes[l.tail].prev].next = Nil,
                   !.len = @ - 1]

\* current.prev.next = current.next; current.next.prev = current.prev
removeInner(l, cur) ==
    IF l.nodes[cur].prev = Nil \/ l.nodes[cur].next = Nil THEN NilDereference(l)
    ELSE [[l EXCEPT !.nodes[l.nodes[cur].prev].next = l.nodes[cur].next]
            EXCEPT !.nodes[l.nodes[cur].next].prev = l.nodes[cur].prev,
                   !.len = @ - 1]

\* "Search for the node to remove"
RECURSIVE removeSearch(_, _, _, _)
removeSearch(l, cur, value, seen) ==
    IF cur = Nil \/ cur = l.tail THEN l
    ELSE IF cur \in seen THEN [l EXCEPT !.fault = "diverge"]
    ELSE IF l.nodes[cur].value = value THEN removeInner(l, cur)
    ELSE removeSearch(l, l.nodes[cur].next, value, seen \cup {cur})

\* DoubleLinkedList.Remove
dllRemove(l, value) ==
    IF l.head = Nil THEN l
    ELSE IF l.nodes[l.head].value = value THEN removeHead(l)
    ELSE IF l.tail = Nil THEN NilDereference(l)
    ELSE IF l.nodes[l.tail].value = value THEN removeTail(l)
    ELSE removeSearch(l, l.nodes[l.head].next, value, {})

\* DoubleLinkedList.Clear
dllClear(l) == [l EXCEPT !.head = Nil, !.tail = Nil, !.len = 0]

\* -------------------------------------------------------------- LRUCache
NewLRUCache(capacity) ==
    [capacity |-> capacity,
     cache |-> [k \in LruKeys |-> Nil],
     list |-> NewDoubleLinkedList,
     values |-> [k \in LruKeys |-> 0]]

\* c.list.Remove(key), c.list.PushFront(key)
listRemove(c, key) == [c EXCEPT !.list = dllRemove(@, key)]
listPushFront(c, key) == [c EXCEPT !.list = PushFront(@, key)]

\* if front, err := c.list.Front(); err == nil { c.cache[key] = front }
frontToCache(c, key) ==
    IF c.list.head # Nil THEN [c EXCEPT !.cache[key] = c.list.head] ELSE c

\* Get, were it to leave the list as it is
lruGetInPlace(c, key) == c

\* LRUCache.Get
lruGet(c, key) ==
    IF c.cache[key] # Nil
    THEN frontToCache(listPushFront(listRemove(c, key), key), key)
    ELSE c

\* the key a Put of key removes to make room: the value of the list's tail;
\* 0 where nothing is removed
oldKey(c, key) ==
    IF c.cache[key] = Nil /\ c.list.len >= c.capacity /\ c.list.tail # Nil
    THEN c.list.nodes[c.list.tail].value
    ELSE 0

dropLruEntry(c, key) == [c EXCEPT !.cache[key] = Nil, !.values[key] = 0]

makeRoom(c, key) ==
    IF c.cache[key] # Nil THEN listRemove(c, key)
    ELSE IF oldKey(c, key) # 0
    THEN dropLruEntry(listRemove(c, oldKey(c, key)), oldKey(c, key))
    ELSE c

setLruValue(c, key, value) == [c EXCEPT !.values[key] = value]

\* LRUCache.Put
lruPut(c, key, value) ==
    setLruValue(frontToCache(listPushFront(makeRoom(c, key), key), key), key, value)

\* LRUCache.Remove
lruRemove(c, key) ==
    IF c.cache[key] # Nil THEN dropLruEntry(listRemove(c, key), key) ELSE c

\* LRUCache.Clear
lruClear(c) ==
    [c EXCEPT !.list = dllClear(@),
              !.cache = [k \in LruKeys |-> Nil],
              !.values = [k \in LruKeys |-> 0]]

\* LRUCache.Len
lruLen(c) == c.list.len

\* the list nodes that can still be reached, from head, tail and the entries
\* of c.cache, renamed by the order a walk meets them
lruRenamed(c, order) ==
    [c EXCEPT !.list.nodes = [i \in 1..Len(order) |->
                                [c.list.nodes[order[i]] EXCEPT !.next = Ref(order, @),
                                                               !.prev = Ref(order, @)]],
              !.list.head = Ref(order, @),
              !.list.tail = Ref(order, @),
              !.cache = [k \in LruKeys |-> Ref(order, c.cache[k])]]

lruReclaim(c) ==
    lruRenamed(c, WalkList(c.list.nodes,
                           <<c.list.head, c.list.tail>> \o [k \in LruKeys |-> c.cache[k]],
                           <<>>))

\* The cache the calls describe: the keys from the most to the least
\* recently used (by Get or Put), the keys in the order they were added, and
\* the value last Put for each.
NoEntries == [recent |-> <<>>, added |-> <<>>, values |-> [k \in LruKeys |-> 0]]

NoLruOp == [op |-> "New", key |-> 0, found |-> FALSE, evicted |-> 0, first |-> 0]

\* ------------------------------------------------ MinHeap, PriorityQueue
\* h.items and pq.items; element i of the Go slice is element i + 1 here.
NewMinHeap == <<>>
NewPriorityQueue == <<>>

At(items, i) == items[i + 1]

\* h.items[i], h.items[j] = h.items[j], h.items[i]
Swapped(items, i, j) ==
    [items EXCEPT ![i + 1] = items[j + 1], ![j + 1] = items[i + 1]]

\* the integer division of Go, which truncates toward zero
Quo(a, b) == IF a >= 0 THEN a \div b ELSE 0 - ((0 - a) \div b)

\* the less of the tests of MinHeap, and the less of NewPriorityQueue
intLess(a, b) == a < b
pqLess(a, b) == a.Priority < b.Priority

\* MinHeap.up
RECURSIVE mhUp(_, _)
mhUp(items, i) ==
    IF i = Quo(i - 1, 2) \/ ~intLess(At(items, i), At(items, Quo(i - 1, 2)))
    THEN items
    ELSE mhUp(Swapped(items, i, Quo(i - 1, 2)), Quo(i - 1, 2))

\* the left child only
mhLeftChild(items, left) == left

\* smallest: the right child where there is one and it is less than the left
mhSmallest(items, left) ==
    IF left + 1 < Len(items) /\ intLess(At(items, left + 1), At(items, left))
    THEN left + 1
    ELSE left

\* MinHeap.down
RECURSIVE mhDown(_, _)
mhDown(items, i) ==
    IF 2 * i + 1 >= Len(items) THEN items
    ELSE IF ~intLess(At(items, mhSmallest(items, 2 * i + 1)), At(items, i)) THEN items
    ELSE mhDown(Swapped(items, i, mhSmallest(items, 2 * i + 1)),
                mhSmallest(items, 2 * i + 1))

\* MinHeap.Push
mhPush(items, item) == mhUp(Append(items, item), Len(items))

\* h.items[0] = h.items[last]; h.items = h.items[:last]
LastToRoot(items) ==
    SubSeq([items EXCEPT ![1] = items[Len(items)]], 1, Len(items) - 1)

\* MinHeap.Pop: the element returned, ok, and the items left
mhPop(items) ==
    IF Len(items) = 0 THEN [item |-> 0, ok |-> FALSE, items |-> items]
    ELSE [item |-> At(items, 0), ok |-> TRUE,
          items |-> IF Len(items) > 1 THEN mhDown(LastToRoot(items), 0)
                    ELSE LastToRoot(items)]

\* MinHeap.Peek
mhPeek(items) ==
    IF Len(items) = 0 THEN [item |-> 0, ok |-> FALSE]
    ELSE [item |-> At(items, 0), ok |-> TRUE]

\* PriorityQueue.up
RECURSIVE pqUp(_, _)
pqUp(items, i) ==
    IF i = Quo(i - 1, 2) \/ ~pqLess(At(items, i), At(items, Quo(i - 1, 2)))
    THEN items
    ELSE pqUp(Swapped(items, i, Quo(i - 1, 2)), Quo(i - 1, 2))

pqSmallest(items, left) ==
    IF left + 1 < Len(items) /\ pqLess(At(items, left + 1), At(items, left))
    THEN left + 1
    ELSE left

\* PriorityQueue.down
RECURSIVE pqDown(_, _)
pqDown(items, i) ==
    IF 2 * i + 1 >= Len(items) THEN items
    ELSE IF ~pqLess(At(items, pqSmallest(items, 2 * i + 1)), At(items, i)) THEN items
    ELSE pqDown(Swapped(items, i, pqSmallest(items, 2 * i + 1)),
                pqSmallest(items, 2 * i + 1))

\* PriorityQueue.Enqueue
pqEnqueue(items, value, priority) ==
    pqUp(Append(items, [Value |-> value, Priority |-> priority]), Len(items))

NoItem == [Value |-> 0, Priority |-> 0]

\* PriorityQueue.Dequeue
pqDequeue(items) ==
    IF Len(items) = 0 THEN [item |-> NoItem, ok |-> FALSE, items |-> items]
    ELSE [item |-> At(items, 0), ok |-> TRUE,
          items |-> IF Len(items) > 1 THEN pqDown(LastToRoot(items), 0)
                    ELSE LastToRoot(items)]

\* PriorityQueue.Peek
pqPeek(items) ==
    IF Len(items) = 0 THEN [item |-> NoItem, ok |-> FALSE]
    ELSE [item |-> At(items, 0), ok |-> TRUE]

NoHeapOp == [op |-> "New", item |-> 0, ok |-> FALSE, least |-> 0, stored |-> FALSE]

\* --------------------------------------------------------------- AVLTree
\* The nodes are the elements of the heap of the tree; a reference is a
\* position in it.  A subtree operation takes and returns a record r: the
\* heap, the node it is applied to or returns, and how many rotations were
\* made so far.
NewAVLTree == [heap |-> <<>>, root |-> Nil, fault |-> "none"]

AVLNode(key, value) ==
    [Key |-> key, Value |-> value, Left |-> Nil, Right |-> Nil, Height |-> 1]

height(h, node) == IF node = Nil THEN 0 ELSE h[node].Height

max(a, b) == IF a > b THEN a ELSE b

getBalance(h, node) ==
    IF node = Nil THEN 0 ELSE height(h, h[node].Left) - height(h, h[node].Right)

\* node.Height = 1 + max(height(node.Left), height(node.Right))
updateHeight(h, node) ==
    [h EXCEPT ![node].Height = 1 + max(height(h, h[node].Left), height(h, h[node].Right))]

At0(t) == [heap |-> t.heap, node |-> t.root, fault |-> t.fault, rotations |-> 0]
On(r, node) == [r EXCEPT !.node = node]
AvlPanic(r) == [r EXCEPT !.fault = "panic"]

\* rightRotate(y), y being r.node; the node returned is x
rightRotate(r) ==
    IF r.fault # "none" THEN r
    ELSE IF r.node = Nil \/ r.heap[r.node].Left = Nil THEN AvlPanic(r)
    ELSE [r EXCEPT !.heap = updateHeight(
                                updateHeight(
                                  [r.heap EXCEPT ![r.heap[r.node].Left].Right = r.node,
                                                 ![r.node].Left =
                                                     r.heap[r.heap[r.node].Left].Right],
                                  r.node),
                                r.heap[r.node].Left),
                   !.node = r.heap[r.node].Left,
                   !.rotations = @ + 1]

\* leftRotate(x), x being r.node; the node returned is y
leftRotate(r) ==
    IF r.fault # "none" THEN r
    ELSE IF r.node = Nil \/ r.heap[r.node].Right = Nil THEN AvlPanic(r)
    ELSE [r EXCEPT !.heap = updateHeight(
                                updateHeight(
                                  [r.heap EXCEPT ![r.heap[r.node].Right].Left = r.node,
                                                 ![r.node].Right =
                                                     r.heap[r.heap[r.node].Right].Left],
                                  r.node),
                                r.heap[r.node].Right),
                   !.node = r.heap[r.node].Right,
                   !.rotations = @ + 1]

\* node.Left = (the node r returns), node.Right = (the node r returns)
linkLeft(r, node) ==
    IF r.fault # "none" THEN r ELSE [r EXCEPT !.heap[node].Left = r.node, !.node = node]
linkRight(r, node) ==
    IF r.fault # "none" THEN r ELSE [r EXCEPT !.heap[node].Right = r.node, !.node = node]

heightUpdated(r) ==
    IF r.fault # "none" THEN r ELSE [r EXCEPT !.heap = updateHeight(@, r.node)]

\* the four cases of insert, on the node r.node
insertCases(r, key) ==
    IF r.fault # "none" THEN r
    ELSE IF getBalance(r.heap, r.node) > 1 /\ key < r.heap[r.heap[r.node].Left].Key
    THEN rightRotate(r)
    ELSE IF getBalance(r.heap, r.node) < 0 - 1 /\ key > r.heap[r.heap[r.node].Right].Key
    THEN leftRotate(r)
    ELSE IF getBalance(r.heap, r.node) > 1 /\ key > r.heap[r.heap[r.node].Left].Key
    THEN rightRotate(linkLeft(leftRotate(On(r, r.heap[r.node].Left)), r.node))
    ELSE IF getBalance(r.heap, r.node) < 0 - 1 /\ key < r.heap[r.heap[r.node].Right].Key
    THEN leftRotate(linkRight(rightRotate(On(r, r.heap[r.node].Right)), r.node))
    ELSE r

\* AVLTree.insert on the subtree r.node
RECURSIVE avlInsert(_, _, _)
avlInsert(r, key, value) ==
    IF r.node = Nil
    THEN [r EXCEPT !.heap = Append(@, AVLNode(key, value)), !.node = Len(r.heap) + 1]
    ELSE IF key < r.heap[r.node].Key
    THEN insertCases(
           heightUpdated(
             linkLeft(avlInsert(On(r, r.heap[r.node].Left), key, value), r.node)),
           key)
    ELSE IF key > r.heap[r.node].Key
    THEN insertCases(
           heightUpdated(
             linkRight(avlInsert(On(r, r.heap[r.node].Right), key, value), r.node)),
           key)
    ELSE [r EXCEPT !.heap[r.node].Value = value]

RECURSIVE minValueNode(_, _)
minValueNode(h, current) ==
    IF h[current].Left # Nil THEN minValueNode(h, h[current].Left) ELSE current

\* delete, were it to return the node without rebalancing
deleteUnbalanced(r) == r

\* the four cases of delete, on the node r.node
deleteCases(r) ==
    IF r.fault # "none" THEN r
    ELSE IF getBalance(r.heap, r.node) > 1
              /\ getBalance(r.heap, r.heap[r.node].Left) >= 0
    THEN rightRotate(r)
    ELSE IF getBalance(r.heap, r.node) > 1
              /\ getBalance(r.heap, r.heap[r.node].Left) < 0
    THEN rightRotate(linkLeft(leftRotate(On(r, r.heap[r.node].Left)), r.node))
    ELSE IF getBalance(r.heap, r.node) < 0 - 1
              /\ getBalance(r.heap, r.heap[r.node].Right) <= 0
    THEN leftRotate(r)
    ELSE IF getBalance(r.heap, r.node) < 0 - 1
              /\ getBalance(r.heap, r.heap[r.node].Right) > 0
    THEN leftRotate(linkRight(rightRotate(On(r, r.heap[r.node].Right)), r.node))
    ELSE r

\* node.Key = temp.Key; node.Value = temp.Value
copySuccessor(r, temp) ==
    [r EXCEPT !.heap[r.node].Key = r.heap[temp].Key,
              !.heap[r.node].Value = r.heap[temp].Value]

\* AVLTree.delete on the subtree r.node
RECURSIVE avlDelete(_, _)
avlDelete(r, key) ==
    IF r.node = Nil THEN r
    ELSE IF key < r.heap[r.node].Key
    THEN deleteCases(
           heightUpdated(linkLeft(avlDelete(On(r, r.heap[r.node].Left), key), r.node)))
    ELSE IF key > r.heap[r.node].Key
    THEN deleteCases(
           heightUpdated(linkRight(avlDelete(On(r, r.heap[r.node].Right), key), r.node)))
    ELSE IF r.heap[r.node].Left = Nil THEN On(r, r.heap[r.node].Right)
    ELSE IF r.heap[r.node].Right = Nil THEN On(r, r.heap[r.node].Left)
    ELSE deleteCases(
           heightUpdated(
             linkRight(
               avlDelete(On(copySuccessor(r, minValueNode(r.heap, r.heap[r.node].Right)),
                            r.heap[r.node].Right),
                         r.heap[minValueNode(r.heap, r.heap[r.node].Right)].Key),
               r.node)))

\* the nodes that can still be reached from t.Root, renamed by the order a
\* walk meets them
RECURSIVE avlWalk(_, _, _)
avlWalk(h, stack, order) ==
    IF stack = <<>> THEN order
    ELSE IF Head(stack) = Nil \/ (\E i \in 1..Len(order) : order[i] = Head(stack))
    THEN avlWalk(h, Tail(stack), order)
    ELSE avlWalk(h, <<h[Head(stack)].Left, h[Head(stack)].Right>> \o Tail(stack),
                 Append(order, Head(stack)))

avlRenamed(r, order) ==
    [heap |-> [i \in 1..Len(order) |->
                 [r.heap[order[i]] EXCEPT !.Left = Ref(order, @),
                                          !.Right = Ref(order, @)]],
     root |-> Ref(order, r.node),
     fault |-> r.fault]

\* t.Root = (the node r returns)
avlRooted(r) == avlRenamed(r, avlWalk(r.heap, <<r.node>>, <<>>))

\* ------------------------------------------------- the thread-safe Set
\* sync.RWMutex: the goroutine holding the write lock (0 for none) and how
\* many read locks each goroutine holds
NewRWMutex == [writer |-> 0, readers |-> [t \in SetThreads |-> 0]]

SetCallOf(op, s, other, item) ==
    [op |-> op, s |-> s, other |-> other, item |-> item, todo |-> {}, result |-> {}]

NoSetCall == SetCallOf("New", 0, 0, 0)

NoLog == [log |-> <<>>, valid |-> TRUE]

NoAvlOp == [op |-> "New", key |-> 0, rotations |-> 0]

\* --------------------------------------------------------------- actions
NoOp == [op |-> "New", key |-> 0, value |-> 0, found |-> FALSE]

\* the state after construction, the caches being of one of the capacities
InitWith(lfuCaps, lruCaps) ==
    /\ heap = <<>>
    /\ root = Nil
    /\ live = [k \in AnyKey |-> 0]
    /\ last = NoOp
    /\ fault = "none"
    /\ damaged = 0
    /\ pc = [t \in Threads |-> "idle"]
    /\ call = [t \in Threads |-> NoOp]
    /\ mu = [writer |-> 0, readers |-> {}]
    /\ sm = NewSortedMap
    /\ smLive = [k \in MapKeys |-> 0]
    /\ smLast = NoOp
    /\ lfu \in {NewLFUCache(capacity) : capacity \in lfuCaps}
    /\ lfuCount = [k \in LfuKeys |-> 0]
    /\ lfuLast = NoCacheOp
    /\ lru \in {NewLRUCache(capacity) : capacity \in lruCaps}
    /\ lruModel = NoEntries
    /\ lruLast = NoLruOp
    /\ mh = NewMinHeap
    /\ mhStored = [x \in HeapItems |-> 0]
    /\ mhLast = NoHeapOp
    /\ pq = NewPriorityQueue
    /\ pqStored = [x \in PqItems |-> 0]
    /\ pqLast = NoHeapOp
    /\ avl = NewAVLTree
    /\ avlLast = NoAvlOp
    /\ rbLog = NoLog
    /\ setItems = [s \in SetIds |-> {}]
    /\ setMu = [s \in SetIds |-> NewRWMutex]
    /\ setPc = [t \in SetThreads |-> "idle"]
    /\ setCall = [t \in SetThreads |-> NoSetCall]

Init == InitWith({MaxLfuCap}, {MaxLruCap})

\* caches of every capacity
InitLFU == InitWith(LfuCaps, {MaxLruCap})
InitLRU == InitWith({MaxLfuCap}, LruCaps)

\* a run is followed while the tree is intact and limit calls further
Followed(limit) == damaged <= limit

Count(h, r, l) ==
    IF damaged = 0 /\ Intact(h, r, l) THEN 0 ELSE damaged + 1

InsertCall(key, value) ==
    /\ fault = "none"
    /\ Len(heap) < MaxNodes
    /\ LET m == Reclaim(InsertRun(heap, root, key, value), heap, root)
           l == [live EXCEPT ![key] = value]
       IN /\ heap' = m.heap
          /\ root' = m.root
          /\ fault' = m.fault
          /\ live' = l
          /\ damaged' = Count(m.heap, m.root, l)
    /\ last' = [op |-> "Insert", key |-> key, value |-> value,
                found |-> searchNoLock(heap, root, key).found]

DeleteCall(key) ==
    /\ fault = "none"
    /\ LET m == Reclaim(DeleteRun(heap, root, key), heap, root)
           l == [live EXCEPT ![key] = 0]
       IN /\ heap' = m.heap
          /\ root' = m.root
          /\ fault' = m.fault
          /\ live' = l
          /\ damaged' = Count(m.heap, m.root, l)
    /\ last' = [op |-> "Delete", key |-> key, value |-> 0,
                found |-> searchNoLock(heap, root, key).found]

SearchCall(key) ==
    /\ fault = "none"
    /\ LET s == searchNoLock(heap, root, key) IN
       /\ fault' = s.fault
       /\ last' = [op |-> "Search", key |-> key,
                   value |-> IF s.found THEN heap[s.node].value ELSE 0,
                   found |-> s.found]
    /\ UNCHANGED <<heap, root, live, damaged>>

\* the calls of one goroutine, one after the other
Insert(key, value) ==
    Followed(MaxDamaged) /\ InsertCall(key, value) /\ UNCHANGED <<conc, containers>>
Delete(key) == Followed(MaxDamaged) /\ DeleteCall(key) /\ UNCHANGED <<conc, containers>>
Search(key) == SearchCall(key) /\ UNCHANGED <<conc, containers>>

Next ==
    \/ \E key \in Keys, value \in Vals : Insert(key, value)
    \/ \E key \in Keys : Delete(key)
    \/ \E key \in Keys : Search(key)

Spec == Init /\ [][Next]_vars

\* the calls with what they did recorded: valid tells whether the tree
\* satisfied the red-black invariants when the call began
InsertTraced(key, value) ==
    /\ Followed(MaxDamaged)
    /\ InsertCall(key, value)
    /\ rbLog' = [log |-> InsertRunTraced(heap, root, key, value).log,
                 valid |-> Intact(heap, root, live)]
    /\ UNCHANGED <<conc, others>>

DeleteTraced(key) ==
    /\ Followed(MaxDamaged)
    /\ DeleteCall(key)
    /\ rbLog' = [log |-> DeleteRunTraced(heap, root, key).log,
                 valid |-> Intact(heap, root, live)]
    /\ UNCHANGED <<conc, others>>

NextTraced ==
    \/ \E key \in TracedKeys, value \in TracedVals : InsertTraced(key, value)
    \/ \E key \in TracedKeys : DeleteTraced(key)

SpecTraced == Init /\ [][NextTraced]_vars

\* the runs that insert keys in ascending order into an empty tree
InsertAscending(key, value) ==
    /\ \A k \in LiveKeys(live) : k < key
    /\ InsertTraced(key, value)

NextAscending == \E key \in Keys, value \in Vals : InsertAscending(key, value)

SpecAscending == Init /\ [][NextAscending]_vars

\* runs that only insert and search
NextInsert ==
    \/ \E key \in Keys, value \in Vals : Insert(key, value)
    \/ \E key \in Keys : Search(key)

SpecInsert == Init /\ [][NextInsert]_vars

\* runs over fewer keys and one value, followed further after the invariants
\* are lost
InsertDeep(key) ==
    Followed(MaxDeepDamaged) /\ InsertCall(key, 1) /\ UNCHANGED <<conc, containers>>
DeleteDeep(key) ==
    Followed(MaxDeepDamaged) /\ DeleteCall(key) /\ UNCHANGED <<conc, containers>>

NextDeep ==
    \/ \E key \in DeepKeys : InsertDeep(key)
    \/ \E key \in DeepKeys : DeleteDeep(key)
    \/ \E key \in DeepKeys : Search(key)

SpecDeep == Init /\ [][NextDeep]_vars

\* ------------------------------------------------- the SortedMap calls
MapSet(key, value) ==
    /\ sm.fault = "none"
    /\ sm' = smSet(sm, key, value)
    /\ smLive' = [smLive EXCEPT ![key] = value]
    /\ smLast' = [op |-> "Set", key |-> key, value |-> value,
                  found |-> smGet(sm, key).found]
    /\ UNCHANGED <<tree, conc, setVars, rbLog, avlVars, lfuVars, lruVars, heapVars>>

MapDelete(key) ==
    /\ sm.fault = "none"
    /\ sm' = smDelete(sm, key)
    /\ smLive' = [smLive EXCEPT ![key] = 0]
    /\ smLast' = [op |-> "Delete", key |-> key, value |-> 0,
                  found |-> smGet(sm, key).found]
    /\ UNCHANGED <<tree, conc, setVars, rbLog, avlVars, lfuVars, lruVars, heapVars>>

MapGet(key) ==
    /\ sm.fault = "none"
    /\ sm' = [sm EXCEPT !.fault = smGet(sm, key).fault]
    /\ smLast' = [op |-> "Get", key |-> key, value |-> smGet(sm, key).value,
                  found |-> smGet(sm, key).found]
    /\ UNCHANGED <<smLive, tree, conc, setVars, rbLog, avlVars, lfuVars, lruVars, heapVars>>

\* runs that only Set and Get
NextMapSet ==
    \/ \E key \in MapKeys, value \in MapVals : MapSet(key, value)
    \/ \E key \in MapKeys : MapGet(key)

SpecMapSet == Init /\ [][NextMapSet]_vars

NextMap ==
    \/ \E key \in MapKeys, value \in MapVals : MapSet(key, value)
    \/ \E key \in MapKeys : MapDelete(key)
    \/ \E key \in MapKeys : MapGet(key)

SpecMap == Init /\ [][NextMap]_vars

\* ------------------------------------------------- the LFUCache calls
\* lfuCount is the number of accesses of each key of the cache: one for the
\* Put that added it and one for every Get or Put of it since.
Forgotten(count, key) == IF key = 0 THEN count ELSE [count EXCEPT ![key] = 0]

\* a cache that holds more entries than its capacity is not followed further
LfuFollowed == lfu.fault = "none" /\ lfuLen(lfu) <= lfu.capacity

LfuPut(key, value) ==
    /\ LfuFollowed
    /\ lfuCount[key] < MaxLfuCount
    /\ \E victim \in lfuVictims(lfu, key) :
           /\ lfu' = lfuReclaim(lfuPut(lfu, key, value, victim))
           /\ lfuCount' = [Forgotten(lfuCount, victim) EXCEPT ![key] = @ + 1]
           /\ lfuLast' = [op |-> "Put", key |-> key, found |-> lfu.cache[key] # Nil,
                          evicted |-> victim]
    /\ UNCHANGED <<tree, conc, setVars, rbLog, avlVars, mapVars, lruVars, heapVars>>

LfuGet(key) ==
    /\ LfuFollowed
    /\ lfuCount[key] < MaxLfuCount
    /\ lfu' = lfuReclaim(lfuGet(lfu, key))
    /\ lfuCount' = IF lfu.cache[key] # Nil THEN [lfuCount EXCEPT ![key] = @ + 1]
                   ELSE lfuCount
    /\ lfuLast' = [op |-> "Get", key |-> key, found |-> lfu.cache[key] # Nil,
                   evicted |-> 0]
    /\ UNCHANGED <<tree, conc, setVars, rbLog, avlVars, mapVars, lruVars, heapVars>>

LfuRemove(key) ==
    /\ LfuFollowed
    /\ lfu' = lfuReclaim(lfuRemove(lfu, key))
    /\ lfuCount' = [lfuCount EXCEPT ![key] = 0]
    /\ lfuLast' = [op |-> "Remove", key |-> key, found |-> lfu.cache[key] # Nil,
                   evicted |-> 0]
    /\ UNCHANGED <<tree, conc, setVars, rbLog, avlVars, mapVars, lruVars, heapVars>>

NextLFU ==
    \/ \E key \in LfuKeys, value \in LfuVals : LfuPut(key, value)
    \/ \E key \in LfuKeys : LfuGet(key)
    \/ \E key \in LfuKeys : LfuRemove(key)

SpecLFU == InitLFU /\ [][NextLFU]_vars

\* ------------------------------------------------- the LRUCache calls
Without(recent, key) == SelectSeq(recent, LAMBDA k : k # key)
Holds(recent, key) == \E i \in 1..Len(recent) : recent[i] = key

\* the key that has to go when key is Put: the least recently used one
Oldest(m, capacity, key) ==
    IF ~Holds(m.recent, key) /\ Len(m.recent) >= capacity
    THEN m.recent[Len(m.recent)]
    ELSE 0

ModelGet(m, key) ==
    IF Holds(m.recent, key)
    THEN [m EXCEPT !.recent = <<key>> \o Without(@, key)]
    ELSE m

ModelForget(m, key) ==
    IF key = 0 THEN m
    ELSE [m EXCEPT !.recent = Without(@, key), !.added = Without(@, key),
                   !.values[key] = 0]

ModelPut(m, capacity, key, value) ==
    [ModelForget(m, Oldest(m, capacity, key))
        EXCEPT !.recent = <<key>> \o Without(@, key),
               !.added = IF Holds(@, key) THEN @ ELSE Append(@, key),
               !.values[key] = value]

\* the key added first, 0 for the empty cache
FirstAdded(m) == IF m.added = <<>> THEN 0 ELSE m.added[1]

LruPut(key, value) ==
    /\ lru.list.fault = "none"
    /\ lru' = lruReclaim(lruPut(lru, key, value))
    /\ lruModel' = ModelPut(lruModel, lru.capacity, key, value)
    /\ lruLast' = [op |-> "Put", key |-> key, found |-> lru.cache[key] # Nil,
                   evicted |-> oldKey(lru, key), first |-> FirstAdded(lruModel)]
    /\ UNCHANGED <<tree, conc, setVars, rbLog, avlVars, mapVars, lfuVars, heapVars>>

LruGet(key) ==
    /\ lru.list.fault = "none"
    /\ lru' = lruReclaim(lruGet(lru, key))
    /\ lruModel' = ModelGet(lruModel, key)
    /\ lruLast' = [op |-> "Get", key |-> key, found |-> lru.cache[key] # Nil,
                   evicted |-> 0, first |-> FirstAdded(lruModel)]
    /\ UNCHANGED <<tree, conc, setVars, rbLog, avlVars, mapVars, lfuVars, heapVars>>

LruRemove(key) ==
    /\ lru.list.fault = "none"
    /\ lru' = lruReclaim(lruRemove(lru, key))
    /\ lruModel' = ModelForget(lruModel, key)
    /\ lruLast' = [op |-> "Remove", key |-> key, found |-> lru.cache[key] # Nil,
                   evicted |-> 0, first |-> FirstAdded(lruModel)]
    /\ UNCHANGED <<tree, conc, setVars, rbLog, avlVars, mapVars, lfuVars, heapVars>>

LruClear ==
    /\ lru.list.fault = "none"
    /\ lru' = lruReclaim(lruClear(lru))
    /\ lruModel' = NoEntries
    /\ lruLast' = [op |-> "Clear", key |-> 0, found |-> FALSE, evicted |-> 0,
                   first |-> FirstAdded(lruModel)]
    /\ UNCHANGED <<tree, conc, setVars, rbLog, avlVars, mapVars, lfuVars, heapVars>>

NextLRU ==
    \/ \E key \in LruKeys, value \in LruVals : LruPut(key, value)
    \/ \E key \in LruKeys : LruGet(key)
    \/ \E key \in LruKeys : LruRemove(key)
    \/ LruClear

SpecLRU == InitLRU /\ [][NextLRU]_vars

\* ------------------------------------------------------ the heap calls
\* mhStored and pqStored count, element by element, what has been pushed and
\* not popped.  The two structures share no state: a run drives one of them.
MinHeapUnused == mh = NewMinHeap /\ mhLast = NoHeapOp
PriorityQueueUnused == pq = NewPriorityQueue /\ pqLast = NoHeapOp

\* the least element stored, 0 where there is none
Least(stored) ==
    IF \A x \in HeapItems : stored[x] = 0 THEN 0
    ELSE CHOOSE x \in HeapItems :
             stored[x] > 0 /\ \A y \in HeapItems : stored[y] > 0 => x <= y

\* the least priority stored, 0 where there is none
LeastPriority(stored) ==
    IF \A x \in PqItems : stored[x] = 0 THEN 0
    ELSE CHOOSE p \in 1..MaxPriority :
             /\ \E x \in PqItems : stored[x] > 0 /\ x.Priority = p
             /\ \A y \in PqItems : stored[y] > 0 => p <= y.Priority

Taken(stored, r) ==
    IF r.ok /\ r.item \in DOMAIN stored /\ stored[r.item] > 0
    THEN [stored EXCEPT ![r.item] = @ - 1]
    ELSE stored

WasStored(stored, r) == r.ok /\ r.item \in DOMAIN stored /\ stored[r.item] > 0

Push(item) ==
    /\ PriorityQueueUnused
    /\ Len(mh) < MaxHeapLen
    /\ mh' = mhPush(mh, item)
    /\ mhStored' = [mhStored EXCEPT ![item] = @ + 1]
    /\ mhLast' = [op |-> "Push", item |-> item, ok |-> TRUE,
                  least |-> Least(mhStored), stored |-> FALSE]
    /\ UNCHANGED <<tree, conc, setVars, rbLog, avlVars, mapVars, lfuVars, lruVars, pq, pqStored, pqLast>>

Pop ==
    /\ PriorityQueueUnused
    /\ mh' = mhPop(mh).items
    /\ mhStored' = Taken(mhStored, mhPop(mh))
    /\ mhLast' = [op |-> "Pop", item |-> mhPop(mh).item, ok |-> mhPop(mh).ok,
                  least |-> Least(mhStored), stored |-> WasStored(mhStored, mhPop(mh))]
    /\ UNCHANGED <<tree, conc, setVars, rbLog, avlVars, mapVars, lfuVars, lruVars, pq, pqStored, pqLast>>

Peek ==
    /\ PriorityQueueUnused
    /\ mhLast' = [op |-> "Peek", item |-> mhPeek(mh).item, ok |-> mhPeek(mh).ok,
                  least |-> Least(mhStored), stored |-> WasStored(mhStored, mhPeek(mh))]
    /\ UNCHANGED <<tree, conc, setVars, rbLog, avlVars, mapVars, lfuVars, lruVars, mh, mhStored, pq, pqStored, pqLast>>

Enqueue(value, priority) ==
    /\ MinHeapUnused
    /\ Len(pq) < MaxPqLen
    /\ pq' = pqEnqueue(pq, value, priority)
    /\ pqStored' = [pqStored EXCEPT ![[Value |-> value, Priority |-> priority]] = @ + 1]
    /\ pqLast' = [op |-> "Enqueue", item |-> [Value |-> value, Priority |-> priority],
                  ok |-> TRUE, least |-> LeastPriority(pqStored), stored |-> FALSE]
    /\ UNCHANGED <<tree, conc, setVars, rbLog, avlVars, mapVars, lfuVars, lruVars, mh, mhStored, mhLast>>

Dequeue ==
    /\ MinHeapUnused
    /\ pq' = pqDequeue(pq).items
    /\ pqStored' = Taken(pqStored, pqDequeue(pq))
    /\ pqLast' = [op |-> "Dequeue", item |-> pqDequeue(pq).item, ok |-> pqDequeue(pq).ok,
                  least |-> LeastPriority(pqStored),
                  stored |-> WasStored(pqStored, pqDequeue(pq))]
    /\ UNCHANGED <<tree, conc, setVars, rbLog, avlVars, mapVars, lfuVars, lruVars, mh, mhStored, mhLast>>

PqPeek ==
    /\ MinHeapUnused
    /\ pqLast' = [op |-> "Peek", item |-> pqPeek(pq).item, ok |-> pqPeek(pq).ok,
                  least |-> LeastPriority(pqStored),
                  stored |-> WasStored(pqStored, pqPeek(pq))]
    /\ UNCHANGED <<tree, conc, setVars, rbLog, avlVars, mapVars, lfuVars, lruVars, mh, mhStored, mhLast, pq, pqStored>>

NextHeap ==
    \/ \E item \in HeapItems : Push(item)
    \/ Pop
    \/ Peek
    \/ \E value \in 1..MaxPqVal, priority \in 1..MaxPriority : Enqueue(value, priority)
    \/ Dequeue
    \/ PqPeek

SpecHeap == Init /\ [][NextHeap]_vars

\* what popping until empty returns, in order
RECURSIVE mhDrain(_)
mhDrain(items) ==
    IF Len(items) = 0 THEN <<>>
    ELSE <<mhPop(items).item>> \o mhDrain(mhPop(items).items)

RECURSIVE pqDrain(_)
pqDrain(items) ==
    IF Len(items) = 0 THEN <<>>
    ELSE <<pqDequeue(items).item>> \o pqDrain(pqDequeue(items).items)

Occurrences(seq, x) == Cardinality({i \in 1..Len(seq) : seq[i] = x})

\* ------------------------------------------- the thread-safe Set calls
\* Lock returns when no goroutine holds the mutex
maySetLock(s) ==
    /\ setMu[s].writer = 0
    /\ \A t \in SetThreads : setMu[s].readers[t] = 0

\* a goroutine has called Lock on the mutex of s and waits
LockWaits(s) == \E t \in SetThreads : setPc[t] = "Lock" /\ setCall[t].s = s

\* RLock returns when no goroutine holds the write lock or waits for it: a
\* Lock that waits keeps new readers out
maySetRLock(s) == setMu[s].writer = 0 /\ ~LockWaits(s)

RLocked(s, t) == [setMu EXCEPT ![s].readers[t] = @ + 1]

\* the deferred RUnlock of s and of other
RUnlockedBoth(s, other, t) ==
    [[setMu EXCEPT ![s].readers[t] = @ - 1] EXCEPT ![other].readers[t] = @ - 1]

\* Add and Remove are called and reach s.mu.Lock()
Add(t, s, item) ==
    /\ setPc[t] = "idle"
    /\ setPc' = [setPc EXCEPT ![t] = "Lock"]
    /\ setCall' = [setCall EXCEPT ![t] = SetCallOf("Add", s, 0, item)]
    /\ UNCHANGED <<tree, conc, rbLog, mapVars, lfuVars, lruVars, heapVars, avlVars,
                   setItems, setMu>>

Remove(t, s, item) ==
    /\ setPc[t] = "idle"
    /\ setPc' = [setPc EXCEPT ![t] = "Lock"]
    /\ setCall' = [setCall EXCEPT ![t] = SetCallOf("Remove", s, 0, item)]
    /\ UNCHANGED <<tree, conc, rbLog, mapVars, lfuVars, lruVars, heapVars, avlVars,
                   setItems, setMu>>

\* s.mu.Lock() returns
SetLock(t) ==
    /\ setPc[t] = "Lock"
    /\ maySetLock(setCall[t].s)
    /\ setMu' = [setMu EXCEPT ![setCall[t].s].writer = t]
    /\ setPc' = [setPc EXCEPT ![t] = "write"]
    /\ UNCHANGED <<tree, conc, rbLog, mapVars, lfuVars, lruVars, heapVars, avlVars,
                   setItems, setCall>>

\* the body of Add or Remove and the deferred Unlock
SetWrite(t) ==
    /\ setPc[t] = "write"
    /\ setItems' = [setItems EXCEPT ![setCall[t].s] =
                       IF setCall[t].op = "Add" THEN @ \cup {setCall[t].item}
                       ELSE @ \ {setCall[t].item}]
    /\ setMu' = [setMu EXCEPT ![setCall[t].s].writer = 0]
    /\ setPc' = [setPc EXCEPT ![t] = "idle"]
    /\ UNCHANGED <<tree, conc, rbLog, mapVars, lfuVars, lruVars, heapVars, avlVars,
                   setCall>>

\* Items, Union, Intersection and Difference are called and reach
\* s.mu.RLock()
Items(t, s) ==
    /\ setPc[t] = "idle"
    /\ setPc' = [setPc EXCEPT ![t] = "RLock"]
    /\ setCall' = [setCall EXCEPT ![t] = SetCallOf("Items", s, s, 0)]
    /\ UNCHANGED <<tree, conc, rbLog, mapVars, lfuVars, lruVars, heapVars, avlVars,
                   setItems, setMu>>

Union(t, s, other) ==
    /\ setPc[t] = "idle"
    /\ setPc' = [setPc EXCEPT ![t] = "RLock"]
    /\ setCall' = [setCall EXCEPT ![t] = SetCallOf("Union", s, other, 0)]
    /\ UNCHANGED <<tree, conc, rbLog, mapVars, lfuVars, lruVars, heapVars, avlVars,
                   setItems, setMu>>

Intersection(t, s, other) ==
    /\ setPc[t] = "idle"
    /\ setPc' = [setPc EXCEPT ![t] = "RLock"]
    /\ setCall' = [setCall EXCEPT ![t] = SetCallOf("Intersection", s, other, 0)]
    /\ UNCHANGED <<tree, conc, rbLog, mapVars, lfuVars, lruVars, heapVars, avlVars,
                   setItems, setMu>>

Difference(t, s, other) ==
    /\ setPc[t] = "idle"
    /\ setPc' = [setPc EXCEPT ![t] = "RLock"]
    /\ setCall' = [setCall EXCEPT ![t] = SetCallOf("Difference", s, other, 0)]
    /\ UNCHANGED <<tree, conc, rbLog, mapVars, lfuVars, lruVars, heapVars, avlVars,
                   setItems, setMu>>

\* s.mu.RLock() returns; Items goes on to s.Size(), the others to
\* other.mu.RLock()
SetRLock(t) ==
    /\ setPc[t] = "RLock"
    /\ maySetRLock(setCall[t].s)
    /\ setMu' = RLocked(setCall[t].s, t)
    /\ setPc' = [setPc EXCEPT ![t] = IF setCall[t].op = "Items" THEN "Size"
                                      ELSE "RLockOther"]
    /\ UNCHANGED <<tree, conc, rbLog, mapVars, lfuVars, lruVars, heapVars, avlVars,
                   setItems, setCall>>

\* Items: the s.mu.RLock() of s.Size() returns
SizeRLock(t) ==
    /\ setPc[t] = "Size"
    /\ maySetRLock(setCall[t].s)
    /\ setMu' = RLocked(setCall[t].s, t)
    /\ setPc' = [setPc EXCEPT ![t] = "SizeHeld"]
    /\ UNCHANGED <<tree, conc, rbLog, mapVars, lfuVars, lruVars, heapVars, avlVars,
                   setItems, setCall>>

\* Items: Size returns (its RUnlock), the items are copied, Items returns
\* (its RUnlock)
ItemsReturn(t) ==
    /\ setPc[t] = "SizeHeld"
    /\ setMu' = RUnlockedBoth(setCall[t].s, setCall[t].s, t)
    /\ setCall' = [setCall EXCEPT ![t].result = setItems[setCall[t].s]]
    /\ setPc' = [setPc EXCEPT ![t] = "idle"]
    /\ UNCHANGED <<tree, conc, rbLog, mapVars, lfuVars, lruVars, heapVars, avlVars,
                   setItems>>

\* other.mu.RLock() returns; Intersection and Difference go on to range
\* over s.items
OtherRLock(t) ==
    /\ setPc[t] = "RLockOther"
    /\ maySetRLock(setCall[t].other)
    /\ setMu' = RLocked(setCall[t].other, t)
    /\ setCall' = [setCall EXCEPT ![t].todo =
                      IF setCall[t].op = "Union" THEN {} ELSE setItems[setCall[t].s]]
    /\ setPc' = [setPc EXCEPT ![t] =
                    IF setCall[t].op = "Union" \/ setItems[setCall[t].s] = {}
                    THEN "body" ELSE "Contains"]
    /\ UNCHANGED <<tree, conc, rbLog, mapVars, lfuVars, lruVars, heapVars, avlVars,
                   setItems>>

\* the item goes to the result of Intersection when other holds it, of
\* Difference when it does not
Selected(op, held) == IF op = "Intersection" THEN held ELSE ~held

\* one round of the loop: other.Contains(item), which takes
\* other.mu.RLock() and releases it, and result.Add(item)
ContainsRLock(t, item) ==
    /\ setPc[t] = "Contains"
    /\ item \in setCall[t].todo
    /\ maySetRLock(setCall[t].other)
    /\ setCall' = [setCall EXCEPT
                      ![t].todo = @ \ {item},
                      ![t].result =
                          IF Selected(setCall[t].op, item \in setItems[setCall[t].other])
                          THEN @ \cup {item} ELSE @]
    /\ setPc' = [setPc EXCEPT ![t] = IF setCall[t].todo = {item} THEN "body"
                                      ELSE "Contains"]
    /\ UNCHANGED <<tree, conc, rbLog, mapVars, lfuVars, lruVars, heapVars, avlVars,
                   setItems, setMu>>

\* the result is complete (Union adds the items of both sets) and the two
\* deferred RUnlock run
SetReturn(t) ==
    /\ setPc[t] = "body"
    /\ setCall' = [setCall EXCEPT ![t].result =
                      IF setCall[t].op = "Union"
                      THEN setItems[setCall[t].s] \cup setItems[setCall[t].other]
                      ELSE @]
    /\ setMu' = RUnlockedBoth(setCall[t].s, setCall[t].other, t)
    /\ setPc' = [setPc EXCEPT ![t] = "idle"]
    /\ UNCHANGED <<tree, conc, rbLog, mapVars, lfuVars, lruVars, heapVars, avlVars,
                   setItems>>

NextSet ==
    \E t \in SetThreads :
        \/ \E s \in SetIds, item \in SetItems : Add(t, s, item)
        \/ \E s \in SetIds, item \in SetItems : Remove(t, s, item)
        \/ \E s \in SetIds : Items(t, s)
        \/ \E s \in SetIds, other \in SetIds : Union(t, s, other)
        \/ \E s \in SetIds, other \in SetIds : Intersection(t, s, other)
        \/ \E s \in SetIds, other \in SetIds : Difference(t, s, other)
        \/ SetLock(t)
        \/ SetWrite(t)
        \/ SetRLock(t)
        \/ SizeRLock(t)
        \/ ItemsReturn(t)
        \/ OtherRLock(t)
        \/ \E item \in SetItems : ContainsRLock(t, item)
        \/ SetReturn(t)

SpecSet == Init /\ [][NextSet]_vars

\* -------------------------------------------------- the AVLTree calls
AvlInsert(key, value) ==
    /\ avl.fault = "none"
    /\ avl' = avlRooted(avlInsert(At0(avl), key, value))
    /\ avlLast' = [op |-> "Insert", key |-> key,
                   rotations |-> avlInsert(At0(avl), key, value).rotations]
    /\ UNCHANGED <<tree, conc, setVars, rbLog, mapVars, lfuVars, lruVars, heapVars>>

AvlDelete(key) ==
    /\ avl.fault = "none"
    /\ avl' = avlRooted(avlDelete(At0(avl), key))
    /\ avlLast' = [op |-> "Delete", key |-> key,
                   rotations |-> avlDelete(At0(avl), key).rotations]
    /\ UNCHANGED <<tree, conc, setVars, rbLog, mapVars, lfuVars, lruVars, heapVars>>

NextAVL ==
    \/ \E key \in AvlKeys, value \in AvlVals : AvlInsert(key, value)
    \/ \E key \in AvlKeys : AvlDelete(key)

SpecAVL == Init /\ [][NextAVL]_vars

\* the height of the subtree of node, counted on the tree itself
RECURSIVE TrueHeight(_, _, _)
TrueHeight(h, node, depth) ==
    IF node = Nil \/ depth = 0 THEN 0
    ELSE 1 + max(TrueHeight(h, h[node].Left, depth - 1),
                 TrueHeight(h, h[node].Right, depth - 1))

\* the keys in the order an in-order traversal visits them
RECURSIVE avlInOrder(_, _, _)
avlInOrder(h, node, depth) ==
    IF node = Nil \/ depth = 0 THEN <<>>
    ELSE avlInOrder(h, h[node].Left, depth - 1) \o <<h[node].Key>>
           \o avlInOrder(h, h[node].Right, depth - 1)

\* ------------------------------------------------- the thread-safe tree
\* t.mu.Lock() returns once no goroutine holds t.mu
mayLockAlways(m, t) == TRUE

mayLock(m, t) == m.writer = 0 /\ m.readers = {}

\* t.mu.RLock() returns once no goroutine holds t.mu for writing and none
\* waits in Lock
mayRLockAlone(m, p, t) == m.writer = 0 /\ m.readers = {}

mayRLock(m, p, t) == m.writer = 0 /\ \A u \in Threads : p[u] # "Lock"

\* a goroutine calls Insert, Delete or Search and reaches the lock
CallInsert(t, key, value) ==
    /\ fault = "none" /\ pc[t] = "idle" /\ Followed(MaxConcDamaged)
    /\ pc' = [pc EXCEPT ![t] = "Lock"]
    /\ call' = [call EXCEPT ![t] =
                   [op |-> "Insert", key |-> key, value |-> value, found |-> FALSE]]
    /\ UNCHANGED <<heap, root, live, last, fault, damaged, mu, containers>>

CallDelete(t, key) ==
    /\ fault = "none" /\ pc[t] = "idle" /\ Followed(MaxConcDamaged)
    /\ pc' = [pc EXCEPT ![t] = "Lock"]
    /\ call' = [call EXCEPT ![t] =
                   [op |-> "Delete", key |-> key, value |-> 0, found |-> FALSE]]
    /\ UNCHANGED <<heap, root, live, last, fault, damaged, mu, containers>>

CallSearch(t, key) ==
    /\ fault = "none" /\ pc[t] = "idle"
    /\ pc' = [pc EXCEPT ![t] = "RLock"]
    /\ call' = [call EXCEPT ![t] =
                   [op |-> "Search", key |-> key, value |-> 0, found |-> FALSE]]
    /\ UNCHANGED <<heap, root, live, last, fault, damaged, mu, containers>>

Lock(t) ==
    /\ fault = "none" /\ pc[t] = "Lock"
    /\ mayLock(mu, t)
    /\ mu' = [mu EXCEPT !.writer = t]
    /\ pc' = [pc EXCEPT ![t] = "body"]
    /\ UNCHANGED <<heap, root, live, last, fault, damaged, call, containers>>

RLock(t) ==
    /\ fault = "none" /\ pc[t] = "RLock"
    /\ mayRLock(mu, pc, t)
    /\ mu' = [mu EXCEPT !.readers = @ \cup {t}]
    /\ pc' = [pc EXCEPT ![t] = "body"]
    /\ UNCHANGED <<heap, root, live, last, fault, damaged, call, containers>>

\* the body of the call, from the lock to the return statement
InsertBody(t) ==
    /\ pc[t] = "body" /\ call[t].op = "Insert"
    /\ InsertCall(call[t].key, call[t].value)
    /\ pc' = [pc EXCEPT ![t] = "Unlock"]
    /\ UNCHANGED <<call, mu, containers>>

\* the node located by Search, which takes the lock, in place of searchNoLock
DeleteBodyViaSearch(t) ==
    /\ fault = "none" /\ pc[t] = "body" /\ call[t].op = "Delete"
    /\ pc' = [pc EXCEPT ![t] = "RLock"]
    /\ UNCHANGED <<heap, root, live, last, fault, damaged, call, mu, containers>>

DeleteBody(t) ==
    /\ pc[t] = "body" /\ call[t].op = "Delete"
    /\ DeleteCall(call[t].key)
    /\ pc' = [pc EXCEPT ![t] = "Unlock"]
    /\ UNCHANGED <<call, mu, containers>>

SearchBody(t) ==
    /\ pc[t] = "body" /\ call[t].op = "Search"
    /\ SearchCall(call[t].key)
    /\ pc' = [pc EXCEPT ![t] = "RUnlock"]
    /\ UNCHANGED <<call, mu, containers>>

\* the release written before the last return only: a call that took an
\* early return (Insert of a key already stored, Delete of a key not found)
\* returns with the lock held
UnlockMissedOnEarlyReturn(t) ==
    /\ fault = "none" /\ pc[t] = "Unlock"
    /\ mu' = IF last.found = (last.op = "Insert") THEN mu
             ELSE [mu EXCEPT !.writer = 0]
    /\ pc' = [pc EXCEPT ![t] = "idle"]
    /\ UNCHANGED <<heap, root, live, last, fault, damaged, call, containers>>

\* defer t.mu.Unlock() / defer t.mu.RUnlock(): the call returns
Unlock(t) ==
    /\ fault = "none" /\ pc[t] = "Unlock"
    /\ mu' = [mu EXCEPT !.writer = 0]
    /\ pc' = [pc EXCEPT ![t] = "idle"]
    /\ UNCHANGED <<heap, root, live, last, fault, damaged, call, containers>>

RUnlock(t) ==
    /\ fault = "none" /\ pc[t] = "RUnlock"
    /\ mu' = [mu EXCEPT !.readers = @ \ {t}]
    /\ pc' = [pc EXCEPT ![t] = "idle"]
    /\ UNCHANGED <<heap, root, live, last, fault, damaged, call, containers>>

NextConc ==
    \E t \in Threads :
        \/ \E key \in ConcKeys : CallInsert(t, key, 1)
        \/ \E key \in ConcKeys : CallDelete(t, key)
        \/ \E key \in ConcKeys : CallSearch(t, key)
        \/ Lock(t)
        \/ RLock(t)
        \/ InsertBody(t)
        \/ DeleteBody(t)
        \/ SearchBody(t)
        \/ Unlock(t)
        \/ RUnlock(t)

SpecConc == Init /\ [][NextConc]_vars

\* The scheduler runs every goroutine that can take a step, and sync.RWMutex
\* passes the lock to a goroutine that waits for it.  A goroutine past the
\* lock can always run its body, so it does not stay before its body for
\* ever unless the program has stopped.
FairConc ==
    \A t \in Threads :
        /\ SF_vars(Lock(t)) /\ SF_vars(RLock(t))
        /\ WF_vars(Unlock(t)) /\ WF_vars(RUnlock(t))
        /\ []<>(pc[t] # "body" \/ fault # "none")

SpecConcFair == SpecConc /\ FairConc

\* the goroutines that only insert and delete, under the same scheduling
NextConcWrite ==
    \E t \in Threads :
        \/ \E key \in ConcKeys : CallInsert(t, key, 1)
        \/ \E key \in ConcKeys : CallDelete(t, key)
        \/ Lock(t)
        \/ InsertBody(t)
        \/ DeleteBody(t)
        \/ Unlock(t)

SpecConcWrite == Init /\ [][NextConcWrite]_vars

FairConcWrite ==
    \A t \in Threads :
        /\ SF_vars(Lock(t))
        /\ WF_vars(Unlock(t))
        /\ []<>(pc[t] # "body" \/ fault # "none")

SpecConcWriteFair == SpecConcWrite /\ FairConcWrite

\* the goroutines past the lock and not yet returned
Inside(t) == pc[t] \in {"body", "Unlock", "RUnlock"}
Quiescent == \A t \in Threads : pc[t] = "idle"

\* Insert(key, value) and then Delete(key), on the tree h, r
deleteAfter(m, key) == IF ~Ok(m) THEN m ELSE DeleteRun(m.heap, m.root, key)
RoundTrip(h, r, key, value) == deleteAfter(InsertRun(h, r, key, value), key)

\* what Search(key) returns: the value of the node found, 0 when not found
Lookup(h, r, key) ==
    LET s == searchNoLock(h, r, key) IN IF s.found THEN h[s.node].value ELSE 0

\* the two trees answer every Search alike
SearchEquivalent(h1, r1, h2, r2) ==
    \A j \in Keys :
        /\ searchNoLock(h1, r1, j).fault = searchNoLock(h2, r2, j).fault
        /\ Lookup(h1, r1, j) = Lookup(h2, r2, j)

Returned == fault = "none"

TypeOK ==
    /\ pc \in [Threads -> {"idle", "Lock", "RLock", "body", "Unlock", "RUnlock"}]
    /\ mu.writer \in Threads \cup {0} /\ mu.readers \subseteq Threads
    /\ root \in 0..Len(heap)
    /\ fault \in {"none", "panic", "diverge"}
    /\ damaged \in Nat

\* ------------------------------------------------------------------ claims

\* C1: after a Delete(k) of a present key k has returned, Search(k) reports
\* not found.
C1_DeleteThenSearch ==
    (Returned /\ last.op = "Delete" /\ last.found)
        => ~searchNoLock(heap, root, last.key).found

\* C2: after each Insert/Delete has returned, every path from the root to a
\* nil leaf contains the same number of Black nodes.
C2_BlackHeight == Returned => BlackHeightIn(heap, root)

\* C3: after each Insert/Delete has returned, the keys of the nodes reachable
\* from the root are in search order (in-order strictly ascending) and no key
\* occurs in two nodes.
C3_SearchOrder == Returned => OrderedIn(heap, root)

\* C4: after each Insert/Delete has returned, the root, if present, is Black.
C4_RootBlack == Returned => RootBlackIn(heap, root)

\* C5: after each Insert/Delete has returned, no Red node has a Red child.
C5_NoRedRed == Returned => NoRedRedIn(heap, root)

\* C6: after each Insert/Delete has returned, the pointer graph is a tree:
\* root.parent is nil, every child's parent reference leads to its parent, and
\* no node is reachable from itself.
C6_PointerTree == Returned => LinkedIn(heap, root)

\* C7: a Delete(k) of a present key k leaves every other key that was found
\* before still found, with the value it had.
C7_DeleteKeepsOthers ==
    [][(fault' = "none" /\ last'.op = "Delete" /\ last'.found)
         => \A j \in Keys \ {last'.key} :
               Lookup(heap, root, j) # 0
                  => Lookup(heap', root', j) = Lookup(heap, root, j)]_vars

\* C8: in runs that only insert, after Insert(k, v) has returned Search(k)
\* finds v and Search of every other key returns what it returned before.
C8_InsertThenSearch ==
    [][(fault' = "none" /\ last'.op = "Insert")
         => /\ Lookup(heap', root', last'.key) = last'.value
            /\ \A j \in Keys \ {last'.key} :
                  Lookup(heap', root', j) = Lookup(heap, root, j)]_vars

\* C8 witness: an Insert of a key that was already stored, with a new value,
\* into a tree holding every key, has returned and Search finds the new value.
C8_Witness ==
    /\ Returned /\ last.op = "Insert" /\ last.found /\ last.value = MaxVal
    /\ Len(heap) = MaxKey
    /\ Lookup(heap, root, last.key) = MaxVal
    /\ \E j \in Keys : Lookup(heap, root, j) = 1

\* C9: after every sequence of Insert/Delete calls the keys of the nodes
\* reachable from the root are exactly the keys inserted and not deleted
\* since, one node per key.
C9_RefinesMap == Returned => RefinesIn(heap, root, live)

\* C10: every Search, Insert and Delete call terminates: no descent or fixup
\* loop runs forever.
C10_Terminates == fault # "diverge"

\* C11: no Insert, Delete or Search call ends in a nil-pointer dereference,
\* whatever calls were made before it from the empty tree.
C11_NoPanic == fault # "panic"

\* C12: an Insert(k, v) of a key k that the tree holds changes the value of
\* the node of k and nothing else: the nodes, their left, right and parent
\* references, their colors, the other values and the root stay as they were,
\* and Search(k) then returns v.
C12_DuplicateInsert ==
    [][(fault' = "none" /\ last'.op = "Insert" /\ last'.found)
         => /\ root' = root
            /\ heap' = [heap EXCEPT ![searchNoLock(heap, root, last'.key).node].value
                                       = last'.value]
            /\ Lookup(heap', root', last'.key) = last'.value]_vars

\* C12 witness: an Insert of a key stored in a node below the root, with a
\* new value, has returned; the node holds the new value and another node
\* still holds the old one.
C12_Witness ==
    /\ Returned /\ last.op = "Insert" /\ last.found /\ last.value = MaxVal
    /\ root # Nil /\ heap[root].key # last.key /\ heap[root].value = 1
    /\ Len(heap) >= 3
    /\ \E n \in 1..Len(heap) :
          heap[n].key = last.key /\ heap[n].value = MaxVal /\ heap[n].parent # Nil

\* C13: a Delete(k) of a key k that the tree does not hold (the empty tree
\* included) leaves the tree as it was: the same nodes, with the same left,
\* right and parent references, colors, keys and values, and the same root.
C13_DeleteAbsent ==
    [][(fault' = "none" /\ last'.op = "Delete" /\ ~last'.found)
         => heap' = heap /\ root' = root]_vars

\* C13 witness: a Delete of a key not stored has returned on a tree of at
\* least three nodes.
C13_Witness ==
    /\ Returned /\ last.op = "Delete" /\ ~last.found
    /\ Len(heap) >= 3
    /\ last.key \notin KeysOf(heap, root)

\* C14: a Search leaves the tree as it was (no key, value, color, reference
\* or the root changes), and a Search that returns reports not found, with no
\* value, on the empty tree and for every key that no node of the tree holds.
C14_SearchReadsOnly ==
    [][last'.op = "Search"
         => /\ heap' = heap /\ root' = root
            /\ (fault' = "none" /\ last'.key \notin KeysOf(heap, root))
                  => (~last'.found /\ last'.value = 0)]_vars

\* C14 witness: a Search of a key that no node holds has returned not found
\* on a tree of at least three nodes.
C14_Witness ==
    /\ Returned /\ last.op = "Search" /\ ~last.found /\ last.value = 0
    /\ Len(heap) >= 3
    /\ last.key \notin KeysOf(heap, root)

\* C15: on every tree reached, for every key k that Search does not find and
\* every value v, an Insert(k, v) followed at once by a Delete(k), both
\* returning, leaves a tree on which every Search returns what it returned
\* before the Insert.
C15_RoundTrip ==
    Returned =>
        \A k \in Keys, v \in Vals :
            (Lookup(heap, root, k) = 0 /\ Ok(RoundTrip(heap, root, k, v)))
                => SearchEquivalent(RoundTrip(heap, root, k, v).heap,
                                    RoundTrip(heap, root, k, v).root, heap, root)

\* C16: in runs that only insert, whatever the order in which a set of keys
\* was inserted, the in-order traversal of the tree is the ascending sequence
\* of that set.
C16_OrderIndependent ==
    Returned => InOrder(heap, root, Len(heap)) = Ascending(LiveKeys(live))

\* C16 witness: every key has been inserted, the last of them the smallest,
\* and the tree differs from the tree that inserting the keys in ascending
\* order builds, while both have the same in-order traversal.
C16_Witness ==
    /\ Returned /\ last.op = "Insert" /\ ~last.found /\ last.key = 1
    /\ Len(heap) = MaxKey
    /\ heap[root].key # InsertAll(<<>>, Nil, Ascending(Keys)).heap[
                            InsertAll(<<>>, Nil, Ascending(Keys)).root].key
    /\ InOrder(heap, root, Len(heap))
          = InOrder(InsertAll(<<>>, Nil, Ascending(Keys)).heap,
                    InsertAll(<<>>, Nil, Ascending(Keys)).root, MaxKey)

\* C17: in runs that only insert (repeated keys and ascending or descending
\* orders included), after each Insert the root is Black, no Red node has a
\* Red child, and every path from the root to a nil leaf holds the same number
\* of Black nodes.
C17_InsertKeepsColors ==
    Returned =>
        /\ RootBlackIn(heap, root)
        /\ NoRedRedIn(heap, root)
        /\ BlackHeightIn(heap, root)

\* C17 witness: the keys were inserted with the largest last, the tree holds
\* them all, two Black nodes lie on every path and a Red node is present.
C17_Witness ==
    /\ Returned /\ last.op = "Insert" /\ ~last.found /\ last.key = MaxKey
    /\ Len(heap) = MaxKey
    /\ BlackCounts(heap, root, Len(heap)) = {2}
    /\ \E n \in NodesOf(heap, root) : heap[n].color = Red

\* C18: after every sequence of Insert/Delete calls that leaves n keys, the
\* longest path from the root to a nil leaf has at most 2 * log2(n + 1)
\* nodes.
C18_Balanced ==
    Returned =>
        WithinLog(LongestPath(heap, root, Len(heap) + 1), Cardinality(LiveKeys(live)))

\* C19: on the thread-safe tree, while an Insert or a Delete is past the
\* lock and has not returned, no other call is: two calls are inside the tree
\* together only if both are Searches.
C19_WritersExclude ==
    \A t, u \in Threads :
        (t # u /\ Inside(t) /\ Inside(u))
            => (call[t].op = "Search" /\ call[u].op = "Search")

\* C19 witness: a Delete is in its body on a tree of at least three nodes
\* while another goroutine has called Search and waits for the lock.
C19_Witness ==
    \E t, u \in Threads :
        /\ pc[t] = "body" /\ call[t].op = "Delete" /\ mu.writer = t
        /\ pc[u] = "RLock" /\ call[u].op = "Search"
        /\ Len(heap) >= 3

\* C20: the calls on the thread-safe tree take effect one at a time, in the
\* order in which they took the lock: each Search returns what the map of
\* the keys inserted and not deleted since (in that order) holds for its key,
\* and once every call has returned the tree holds exactly the surviving
\* keys, each found with the value inserted for it.
C20_Linearizable ==
    Returned =>
        /\ last.op = "Search"
              => /\ last.found <=> live[last.key] # 0
                 /\ last.value = live[last.key]
        /\ Quiescent
              => \A k \in Keys :
                    /\ searchNoLock(heap, root, k).fault = "none"
                    /\ Lookup(heap, root, k) = live[k]

\* C21: on the thread-safe tree the lock is held only by calls that are past
\* it and have not returned, whatever path they take to their return: once no
\* call is in progress the lock is free.
C21_LockReleased ==
    /\ mu.writer # 0 => (Inside(mu.writer) /\ call[mu.writer].op # "Search")
    /\ \A t \in mu.readers : Inside(t) /\ call[t].op = "Search"
    /\ Quiescent => (mu.writer = 0 /\ mu.readers = {})

\* C21 witness: a Delete of a key not stored has returned early on a tree
\* that holds nodes, no call is in progress and the lock is free.
C21_Witness ==
    /\ Quiescent /\ Returned /\ mu = [writer |-> 0, readers |-> {}]
    /\ last.op = "Delete" /\ ~last.found
    /\ Len(heap) >= 2

\* C22: no call of the thread-safe tree waits for the lock while it holds
\* the lock.
C22_NoReentry ==
    \A t \in Threads :
        pc[t] \in {"Lock", "RLock"} => (mu.writer # t /\ t \notin mu.readers)

\* C22 witness: a Delete has found its node and unlinked it, holding the
\* lock it took once.
C22_Witness ==
    \E t \in Threads :
        /\ pc[t] = "Unlock" /\ call[t].op = "Delete" /\ mu.writer = t
        /\ Returned /\ last.op = "Delete" /\ last.found

\* C23: under fair scheduling every Insert, Delete and Search call issued on
\* the thread-safe tree returns.
C23_Returns == \A t \in Threads : (pc[t] # "idle") ~> (pc[t] = "idle")

\* C24: a Search takes the lock for reading only: a Search that waits at the
\* lock can pass it whenever no Insert or Delete holds the lock or waits for
\* it, however many Searches are inside the tree, so that two Searches are
\* inside the tree together.
C24_SearchesShare ==
    \A t \in Threads :
        (Returned /\ pc[t] = "RLock" /\ mu.writer = 0
                  /\ \A u \in Threads : pc[u] # "Lock")
            => ENABLED RLock(t)

\* C24 witness: two Searches are inside a tree that holds nodes, both holding
\* the lock for reading.
C24_Witness ==
    \E t, u \in Threads :
        /\ t # u /\ pc[t] = "body" /\ pc[u] = "body"
        /\ call[t].op = "Search" /\ call[u].op = "Search"
        /\ mu.readers = {t, u} /\ mu.writer = 0
        /\ Len(heap) >= 2

\* C25: in runs of Set calls in any key order, Get(k) returns found with the
\* value most recently Set for k, and not found for a key never Set.
C25_SetThenGet ==
    sm.fault = "none" =>
        \A k \in MapKeys :
            /\ smGet(sm, k).fault = "none"
            /\ smGet(sm, k).found <=> smLive[k] # 0
            /\ smGet(sm, k).value = smLive[k]

\* the index holds, for every key of the slice, the key's position, and no
\* other entry
IndexExact ==
    \A k \in MapKeys :
        IF sm.index[k] = Absent THEN \A p \in 1..Len(sm.keys) : sm.keys[p] # k
        ELSE sm.index[k] < Len(sm.keys) /\ sm.keys[sm.index[k] + 1] = k

\* what a Delete step has to do
DeleteExactStep ==
    smLast'.op = "Delete" =>
        IF smLive[smLast'.key] # 0
        THEN /\ sm'.fault = "none"
             /\ ~smGet(sm', smLast'.key).found
             /\ smLen(sm') = smLen(sm) - 1
             /\ \A k \in MapKeys \ {smLast'.key} :
                    smLive[k] # 0 =>
                        /\ smGet(sm', k).found
                        /\ smGet(sm', k).value = smLive[k]
        ELSE sm' = sm

\* C26: a Delete(k) of a key that was Set and not deleted since removes exactly
\* k: Get(k) is not found afterwards, Len is one less, and every other such key
\* is still found by Get with its own value; a Delete of any other key leaves
\* the map as it was.
C26_DeleteExact == [][DeleteExactStep]_vars

\* Delete does all of that on every map whose index is exact and whose
\* values are the ones Set before the call
DeleteExactOnExactIndex ==
    [][(IndexExact /\ C25_SetThenGet) => DeleteExactStep]_vars

\* C27: an LFUCache of capacity c >= 1 never holds more than c entries,
\* whatever Put, Get and Remove calls have been made.
C27_LfuWithinCapacity == lfuLen(lfu) <= lfu.capacity

\* C28: the key a Put evicts has the least access count of the keys in the
\* cache: no key of the cache has a strictly lower count.
C28_LfuEvictsLeastUsed ==
    [][lfuLast'.evicted # 0 =>
         \A k \in LfuKeys :
             lfuCount[k] # 0 => lfuCount[lfuLast'.evicted] <= lfuCount[k]]_vars

\* C29: in an LRUCache of capacity c >= 1, a Put of a new key into a full
\* cache evicts the key whose last Get or Put is the oldest (and a Put evicts
\* nothing otherwise); every other key keeps its value, so that the cache
\* holds the values last Put for the keys not evicted, removed or cleared; and
\* Len() is the number of those keys and never exceeds c.
C29_LruEvictsOldest ==
    [][/\ lru'.list.fault = "none"
       /\ lruLast'.evicted = (IF lruLast'.op = "Put"
                               THEN Oldest(lruModel, lru.capacity, lruLast'.key)
                               ELSE 0)
       /\ lru'.values = lruModel'.values
       /\ \A k \in LruKeys : lru'.cache[k] # Nil <=> lruModel'.values[k] # 0
       /\ lruLen(lru') = Len(lruModel'.recent)
       /\ lruLen(lru') <= lru.capacity]_vars

\* C29 witness: a Put has evicted a key from a full cache of capacity two, and
\* the evicted key is not the one that was added first: a Get or Put of the
\* older key has made the younger one the least recently used.
C29_Witness ==
    /\ lruLast.op = "Put" /\ lruLast.evicted # 0
    /\ lru.capacity = 2 /\ lruLen(lru) = 2
    /\ lruLast.evicted # lruLast.first
    /\ lru.values[lruLast.first] # 0

\* C30: after any Push (Enqueue) and Pop (Dequeue) calls, a Pop returns ok
\* and an element that is stored and is least under less (of the lowest
\* priority number, for the PriorityQueue) among those stored; the heap holds
\* exactly what was pushed and not popped, and popping it until empty yields
\* a non-decreasing sequence; Pop and Peek on an empty heap return ok = false.
C30_PopsLeast ==
    /\ \A x \in HeapItems : Occurrences(mh, x) = mhStored[x]
    /\ \A i \in 1..(Len(mh) - 1) : mhDrain(mh)[i] <= mhDrain(mh)[i + 1]
    /\ mhLast.op = "Pop" =>
           /\ mhLast.ok <=> mhLast.least # 0
           /\ mhLast.ok => mhLast.stored /\ mhLast.item = mhLast.least
    /\ (mhLast.op = "Peek" /\ mhLast.least = 0) => ~mhLast.ok
    /\ \A x \in PqItems : Occurrences(pq, x) = pqStored[x]
    /\ \A i \in 1..(Len(pq) - 1) :
           pqDrain(pq)[i].Priority <= pqDrain(pq)[i + 1].Priority
    /\ pqLast.op = "Dequeue" =>
           /\ pqLast.ok <=> pqLast.least # 0
           /\ pqLast.ok => pqLast.stored /\ pqLast.item.Priority = pqLast.least
    /\ (pqLast.op = "Peek" /\ pqLast.least = 0) => ~pqLast.ok

\* C30 witness: a Pop has returned an element and left a heap of four
\* elements, not all equal, whose root has two children again.
C30_Witness ==
    /\ mhLast.op = "Pop" /\ mhLast.ok
    /\ Len(mh) = 4
    /\ \E i, j \in 1..4 : mh[i] # mh[j]
    /\ mhLast.item < mh[1]

\* C31: after any Insert and Delete calls on an AVLTree, the heights of the
\* left and right subtrees of every node differ by at most 1, the Height
\* stored in every node is 1 + the larger of its children's heights, and
\* the in-order traversal visits every node once, the keys strictly ascending.
C31_AvlBalanced ==
    /\ avl.fault = "none"
    /\ \A n \in 1..Len(avl.heap) :
           /\ TrueHeight(avl.heap, avl.heap[n].Left, Len(avl.heap))
                  - TrueHeight(avl.heap, avl.heap[n].Right, Len(avl.heap)) \in {0 - 1, 0, 1}
           /\ avl.heap[n].Height = TrueHeight(avl.heap, n, Len(avl.heap))
           /\ avl.heap[n].Height = 1 + max(height(avl.heap, avl.heap[n].Left),
                                           height(avl.heap, avl.heap[n].Right))
    /\ Len(avlInOrder(avl.heap, avl.root, Len(avl.heap))) = Len(avl.heap)
    /\ \A i \in 1..(Len(avl.heap) - 1) :
           avlInOrder(avl.heap, avl.root, Len(avl.heap))[i]
               < avlInOrder(avl.heap, avl.root, Len(avl.heap))[i + 1]

\* C31 witness: a Delete has rebalanced a tree of at least five nodes with a
\* double rotation.
C31_Witness ==
    /\ avlLast.op = "Delete" /\ avlLast.rotations >= 2
    /\ Len(avl.heap) >= 5

\* ------------------------------------------------ the log of a traced call
Happened(ev, arg) ==
    \E i \in 1..Len(rbLog.log) : rbLog.log[i] = [ev |-> ev, arg |-> arg]

Times(ev) == Cardinality({i \in 1..Len(rbLog.log) : rbLog.log[i].ev = ev})

Rotations == Times("rotateLeft") + Times("rotateRight")

\* C32: whenever deleteNode starts the delete-fixup, the node it passes as
\* the parent is the actual parent of the replacement position in the tree
\* at that moment, never a node already unlinked.
C32_FixupAtActualParent ==
    \A i \in 1..Len(rbLog.log) :
        rbLog.log[i].ev = "fixDelete" => rbLog.log[i].arg = "actual parent"

\* C33: in a Delete on a tree that satisfied the red-black invariants the
\* delete-fixup takes none of its defensive early exits: it finds no nil
\* sibling (before or after the red-sibling and the near-child rotation)
\* and no nil parent for a position that is not the root.
C33_NoDefensiveExit == rbLog.valid => Times("exit") = 0

\* the exits are taken only by a fixup started at a node that is not the
\* parent of the replacement position
NoExitFromActualParent ==
    rbLog.valid /\ C32_FixupAtActualParent => Times("exit") = 0

Iterations == {i \in 1..Len(rbLog.log) : rbLog.log[i].ev = "iteration"}

LastOf(i) ==
    IF \E j \in Iterations : j > i
    THEN (CHOOSE j \in Iterations : j > i /\ \A k \in Iterations : k > i => j <= k) - 1
    ELSE Len(rbLog.log)

During(i, evs) ==
    Cardinality({j \in (i + 1)..LastOf(i) : rbLog.log[j].ev \in evs})

RotationEvents == {"rotateLeft", "rotateRight"}

\* C35: every iteration of the insert-fixup either recolors only (and goes
\* on from the grandparent) or makes one or two rotations and is the last
\* one; an Insert makes at most two rotations.
C35_InsertRotations ==
    last.op = "Insert" =>
        /\ Rotations <= 2
        /\ \A i \in Iterations :
              \/ /\ During(i, {"recolor"}) = 1
                 /\ During(i, RotationEvents) = 0
              \/ /\ During(i, {"recolor"}) = 0
                 /\ During(i, RotationEvents) \in {1, 2}
                 /\ LastOf(i) = Len(rbLog.log)

\* C35 witness: an Insert has made two rotations in its one iteration.
C35_Witness ==
    /\ last.op = "Insert"
    /\ Cardinality(Iterations) = 1
    /\ Rotations = 2

\* an Insert has recolored in one iteration and rotated in a later one
RecoloredThenRotated ==
    /\ last.op = "Insert"
    /\ Times("recolor") >= 1
    /\ Rotations >= 1

\* the traced runs that only insert
NextInsertTraced ==
    \E key \in TracedKeys, value \in TracedVals : InsertTraced(key, value)

SpecInsertTraced == Init /\ [][NextInsertTraced]_vars

\* C36: once the far-child case of the delete-fixup has rotated the parent
\* the loop ends in that iteration, and a Delete makes at most three
\* rotations (red sibling, near child, far child).
C36_DeleteRotations ==
    last.op = "Delete" =>
        /\ Rotations <= 3
        /\ \A i \in 1..Len(rbLog.log) : rbLog.log[i].ev = "far" =>
              /\ i < Len(rbLog.log)
              /\ rbLog.log[i + 1].ev \in RotationEvents
              /\ \A j \in (i + 1)..Len(rbLog.log) : rbLog.log[j].ev # "iteration"

\* C36 witness: a Delete has made three rotations, the last in the far-child
\* case.
C36_Witness ==
    /\ last.op = "Delete"
    /\ Rotations = 3
    /\ Times("far") = 1

\* C37: a rotateLeft or rotateRight of a node of a well-formed tree (keys in
\* search order, every parent reference leading to the parent) that has the
\* required child leaves the color, key and value of every node as they
\* were, keeps the in-order key sequence of the tree and leaves the links
\* consistent, t.root being the new top when the node was the root.
\* This is so of the rotations the calls made and of a rotation of any node
\* of the tree a call left.
C37_RotationsFrame ==
    /\ \A i \in 1..Len(rbLog.log) :
          rbLog.log[i].ev \in RotationEvents => rbLog.log[i].arg # "broken"
    /\ WellFormed(Machine(heap, root)) =>
          \A n \in NodesOf(heap, root) :
              /\ heap[n].right # Nil =>
                    Framed(Machine(heap, root), rotateLeft(Machine(heap, root), n))
              /\ heap[n].left # Nil =>
                    Framed(Machine(heap, root), rotateRight(Machine(heap, root), n))

\* C37 witness: a call has rotated the root of a well-formed tree one way
\* and a node below the root the other way.
C37_Witness ==
    \/ Happened("rotateLeft", "framed, new root") /\ Happened("rotateRight", "framed")
    \/ Happened("rotateRight", "framed, new root") /\ Happened("rotateLeft", "framed")

\* C38: three distinct keys a < b < c inserted in ascending order into an
\* empty tree: the third Insert makes a left rotation (and no other), and b
\* is the Black root with a and c as its Red children.
C38_AscendingThree ==
    Cardinality(LiveKeys(live)) = 3 =>
        /\ Times("rotateLeft") = 1 /\ Times("rotateRight") = 0
        /\ Len(heap) = 3 /\ KeysOf(heap, root) = LiveKeys(live)
        /\ heap[root].color = Black
        /\ heap[root].left # Nil /\ heap[root].right # Nil
        /\ heap[heap[root].left].color = Red
        /\ heap[heap[root].right].color = Red
        /\ heap[heap[root].left].key < heap[root].key
        /\ heap[root].key < heap[heap[root].right].key
        /\ Intact(heap, root, live)

\* C38 witness: 1, 2, 3 have been inserted in that order and the root holds 2.
C38_Witness ==
    /\ LiveKeys(live) = {1, 2, 3}
    /\ last.op = "Insert" /\ last.key = 3
    /\ heap[root].key = 2 /\ heap[root].color = Black

\* the mutex a goroutine is about to read-lock, 0 when it is not at an RLock
RLockWanted(t) ==
    IF setPc[t] \in {"RLock", "Size"} THEN setCall[t].s
    ELSE IF setPc[t] \in {"RLockOther", "Contains"} THEN setCall[t].other
    ELSE 0

\* C39: no operation of the thread-safe Set asks for a read lock it already
\* holds, so that no Items, Union, Intersection or Difference call waits
\* for a read lock behind an Add or Remove that waits for that call's own
\* read lock to be released: such a call never returns.
C39_NoReadReentry ==
    \A t \in SetThreads :
        RLockWanted(t) # 0 =>
            ~(setMu[RLockWanted(t)].readers[t] > 0 /\ LockWaits(RLockWanted(t)))

\* a goroutine waits for a read lock it already holds, behind a Lock that
\* waits
WaitsOnItself(t) ==
    /\ RLockWanted(t) # 0
    /\ setMu[RLockWanted(t)].readers[t] > 0
    /\ LockWaits(RLockWanted(t))

\* once a goroutine waits so, it waits so for ever: its call cannot return
WaitsForEver ==
    [][\A t \in SetThreads : WaitsOnItself(t) => WaitsOnItself(t)']_vars

====
